---- MODULE Spec2Model ----
(***************************************************************************)
(* Music Video Downloader: the candidate selector                          *)
(* (_worker_filter_and_select), the batch worker (worker_thread_main) and  *)
(* the foreground application (App) with its review queue.                 *)
(*                                                                         *)
(* Text is modelled as a sequence of tokens; a keyword or a name is one    *)
(* token, `kw in text` is token membership, and str.lower() maps every     *)
(* token through LowerTok.  An absent (None) value is the string None      *)
(* for ids, the empty text for a title or channel that is not a string,    *)
(* and 0 for a view count or a duration (the code tests both with          *)
(* `if value:`).                                                           *)
(***************************************************************************)
EXTENDS Integers, Sequences, FiniteSets, TLC

None == "None"

\* the score 'N/A' of a candidate that was not scored
NotApplicable == -999

(***************************************************************************)
(* Bounds                                                                  *)
(***************************************************************************)
\* longest list of search results handed to the selector
MaxVideos == 2

\* number of audio files found by the scan
NumFiles == 2

MaxRuns == 1
MaxReviewFrames == 2

\* number of MP4 files in the video folder, and of runs of the metadata tool
MaxMp4 == 2
MaxToolRuns == 2

(***************************************************************************)
(* Text                                                                    *)
(***************************************************************************)
LowerTok(t) ==
    CASE t = "Artist" -> "artist"
      [] t = "Song" -> "song"
      [] t = "Official Video" -> "official video"
      [] t = "Official Music Video" -> "official music video"
      [] t = "VEVO" -> "vevo"
      [] t = "Lyric" -> "lyric"
      [] OTHER -> t

Lower(text) == [i \in 1..Len(text) |-> LowerTok(text[i])]

Contains(text, kw) == \E i \in 1..Len(text) : text[i] = kw

ContainsAny(text, kws) == \E kw \in kws : Contains(text, kw)

negative_keywords ==
    {"lyric", "cover", "remix", "live", "reaction", "audio only", "visualizer",
     "fan cam", "instrumental", "karaoke", "parody", "chipmunk", "slowed",
     "reverb", "bass boosted", "tutorial", "lesson", "interview", "teaser",
     "trailer", "album version", "full album", "topic", "provided to youtube by",
     "8d audio", "nightcore", "extended", "mashup", "megamix", "clean"}

positive_keywords == {"official music video", "official video"}

priority_exempt_keywords == {"audio only", "visualizer"}

description_keywords == {"lyrics in description", "fan-made", "unofficial"}

(***************************************************************************)
(* Raw search results (one JSON record of the search tool each)            *)
(***************************************************************************)
VideoId == <<"v1", "v2", "v3", "v4">>

\* an id that is present but empty
EmptyId == ""

\* `if video_id:`: the id is neither missing nor empty
Truthy(id) == id \notin {None, EmptyId}

Video(title, channel, uploader_id, verified, description, views, duration, hasId) ==
    [id |-> IF hasId THEN "id" ELSE None, title |-> title, channel |-> channel,
     uploader_id |-> uploader_id, channel_is_verified |-> verified,
     description |-> description, view_count |-> views, duration |-> duration,
     thumbnails |-> <<>>, thumbnail |-> None]

\* a record with a thumbnails list (each entry is modelled by its 'url', None
\* when the entry has none) and a top-level thumbnail field
WithThumbnails(video, thumbnails, thumbnail) ==
    [video EXCEPT !.thumbnails = thumbnails, !.thumbnail = thumbnail]

PoolTitles ==
    {<<"Artist", "Song", "Official Video">>,
     <<"artist", "song", "official music video", "live">>,
     <<"Artist", "Song", "Official Video", "visualizer">>,
     <<"Artist", "Song">>,
     <<"song">>,
     <<"artist", "song", "Lyric">>}

PoolChannels ==
    {<<"Artist">>, <<"artist", "fans">>, <<"music", "topic">>, <<"other">>}

\* the results the search tool is taken to return: every combination of the
\* title and channel shapes, and single-feature variants of them
VideoPool ==
    {Video(t, c, <<>>, FALSE, <<>>, 0, 200, TRUE) : t \in PoolTitles, c \in PoolChannels}
    \cup
    {Video(<<"Artist", "Song", "Official Video">>, <<"Artist", "VEVO">>, <<>>, FALSE, <<>>, 0, 200, TRUE),
     Video(<<"Artist", "Song", "Official Video">>, <<"other">>, <<"artist", "vevo">>, FALSE, <<>>, 0, 200, TRUE),
     Video(<<"Artist", "Song", "Official Video">>, <<"other">>, <<>>, TRUE, <<>>, 0, 200, TRUE),
     Video(<<"Artist", "Song", "Official Video">>, <<"Artist">>, <<>>, FALSE, <<>>, 0, 200, FALSE),
     Video(<<"Artist", "Song">>, <<"Artist">>, <<>>, FALSE, <<>>, 0, 200, FALSE),
     Video(<<"Artist", "Song">>, <<"other">>, <<>>, TRUE, <<>>, 0, 200, TRUE),
     Video(<<"song">>, <<"other">>, <<>>, TRUE, <<>>, 0, 200, TRUE),
     Video(<<"song">>, <<"other">>, <<>>, TRUE, <<>>, 150000, 200, TRUE),
     Video(<<"Artist", "Song">>, <<"other">>, <<>>, FALSE, <<>>, 2000000, 200, TRUE),
     Video(<<"Artist", "Song">>, <<"other">>, <<>>, FALSE, <<>>, 20000000, 200, TRUE),
     Video(<<"Artist", "Song">>, <<"Artist">>, <<>>, FALSE, <<>>, 0, 80, TRUE),
     Video(<<"Artist", "Song">>, <<"Artist">>, <<>>, FALSE, <<>>, 0, 700, TRUE),
     Video(<<"Artist", "Song">>, <<"Artist">>, <<>>, FALSE, <<"fan-made">>, 0, 200, TRUE),
     Video(<<"Artist">>, <<"other">>, <<>>, FALSE, <<>>, 0, 200, TRUE),
     Video(<<"Artist">>, <<"artist", "fans">>, <<>>, FALSE, <<>>, 0, 200, TRUE),
     Video(<<>>, <<"Artist">>, <<>>, FALSE, <<>>, 0, 200, TRUE),
     Video(<<"Artist", "Song">>, <<"other">>, <<"artist", "official">>, FALSE, <<>>, 0, 200, TRUE),
     Video(<<"Artist", "Song">>, <<"official", "music">>, <<>>, FALSE, <<>>, 0, 200, TRUE),
     Video(<<"song">>, <<"various artists">>, <<>>, FALSE, <<>>, 0, 200, TRUE),
     [Video(<<"Artist", "Song">>, <<"Artist">>, <<>>, FALSE, <<>>, 0, 200, TRUE)
        EXCEPT !.id = EmptyId],
     [Video(<<"Artist", "Song", "Official Video">>, <<"Artist">>, <<>>, FALSE, <<>>, 0, 200, TRUE)
        EXCEPT !.id = EmptyId]}
    \cup
    {WithThumbnails(Video(<<"Artist", "Song">>, <<"other">>, <<>>, FALSE, <<>>, 0, 200, TRUE), t[1], t[2]) :
        t \in {<<<<"t1", "t2">>, "top">>,
                <<<<"t1", None>>, None>>,
                <<<<"t1", "t2", None>>, "top">>,
                <<<<None, "t2", None>>, "top">>,
                <<<<None>>, "top">>,
                <<<<>>, "top">>}}

\* the i-th result of a list carries the id VideoId[i], unless it has none
WithIds(vs) ==
    [i \in 1..Len(vs) |-> IF Truthy(vs[i].id) THEN [vs[i] EXCEPT !.id = VideoId[i]] ELSE vs[i]]

SeqsUpTo(S, n) == UNION {[1..k -> S] : k \in 0..n}

VideoLists == {WithIds(vs) : vs \in SeqsUpTo(VideoPool, MaxVideos)}

(***************************************************************************)
(* _worker_filter_and_select                                               *)
(***************************************************************************)
NoneResult == [type |-> "none"]

Selected(id) == [type |-> "selected", id |-> id]

NeedsManual(reason, candidates, artist, title) ==
    [type |-> "manual", reason |-> reason, candidates |-> candidates,
     artist |-> artist, title |-> title]

\* `return x.get('id')`: a missing id is returned as None, which callers
\* cannot tell from "no suitable candidate"
ReturnId(id) == IF id = None THEN NoneResult ELSE Selected(id)

\* `for thumb in reversed(thumbnails): thumbnail_url = thumb.get('url')` with
\* `if thumbnail_url: break` inside the loop
RECURSIVE FirstUrlInReverse(_)
FirstUrlInReverse(thumbnails) ==
    IF Len(thumbnails) = 1 \/ Truthy(thumbnails[Len(thumbnails)])
    THEN thumbnails[Len(thumbnails)]
    ELSE FirstUrlInReverse(SubSeq(thumbnails, 1, Len(thumbnails) - 1))

\* thumbnail resolution of the scoring/override path and of the dialog's
\* filename search
thumbnail_url(video) ==
    LET listed == IF video.thumbnails = <<>> THEN None
                  ELSE FirstUrlInReverse(video.thumbnails)
    IN  IF Truthy(listed) THEN listed ELSE video.thumbnail

\* the same loop in the no-trust path, where the `if thumbnail_url: break`
\* stands after the one-line for statement: the loop runs down to the first
\* entry of the list
no_trust_url_after_loop(video) ==
    IF video.thumbnails = <<>> THEN None
    ELSE IF Truthy(video.thumbnails[Len(video.thumbnails)])
    THEN video.thumbnails[Len(video.thumbnails)]
    ELSE video.thumbnails[1]

\* ... and its break leaves the enclosing `for video in videos`
no_trust_breaks(video) ==
    /\ video.thumbnails # <<>>
    /\ ~Truthy(video.thumbnails[Len(video.thumbnails)])
    /\ Truthy(video.thumbnails[1])

no_trust_thumbnail_url(video) ==
    IF Truthy(no_trust_url_after_loop(video)) THEN no_trust_url_after_loop(video)
    ELSE video.thumbnail

\* 'url': the page of the id, '#' without one (the records carry no webpage_url)
PageUrl(video) == IF Truthy(video.id) THEN video.id ELSE "#"

Candidate(video, score) ==
    [id |-> video.id, title |-> video.title, channel |-> video.channel,
     duration |-> video.duration, url |-> PageUrl(video), views |-> video.view_count,
     thumbnail |-> thumbnail_url(video), score |-> score]

\* the candidate the no-trust path builds
NoTrustCandidate(video) ==
    [Candidate(video, NotApplicable) EXCEPT !.thumbnail = no_trust_thumbnail_url(video)]

\* the candidates list after the loop of the no-trust path
RECURSIVE NoTrustCandidates(_)
NoTrustCandidates(videos) ==
    IF videos = <<>> \/ no_trust_breaks(Head(videos)) THEN <<>>
    ELSE <<NoTrustCandidate(Head(videos))>> \o NoTrustCandidates(Tail(videos))

\* the candidates ManualSelectDialog.search_by_filename builds from the raw
\* results of its search
search_by_filename_candidates(new_videos) ==
    [i \in 1..Len(new_videos) |-> Candidate(new_videos[i], NotApplicable)]

is_official_title(video) == ContainsAny(Lower(video.title), positive_keywords)

is_official_channel(video, artist) ==
    \/ Lower(video.channel) = <<LowerTok(artist)>>
    \/ Contains(Lower(video.channel), "official")
    \/ Contains(Lower(video.channel), "vevo")
    \/ Contains(Lower(video.uploader_id), "vevo")
    \/ video.channel_is_verified

has_negative(video) ==
    ContainsAny(Lower(video.title), negative_keywords \ priority_exempt_keywords)

IsPriority(video, artist) ==
    is_official_title(video) /\ is_official_channel(video, artist) /\ ~has_negative(video)

\* the priority scan: the first result in input order that qualifies and has an id
PriorityHits(videos, artist) ==
    {i \in 1..Len(videos) : IsPriority(videos[i], artist) /\ Truthy(videos[i].id)}

Min(S) == CHOOSE x \in S : \A y \in S : x <= y

title_negative(video) == ContainsAny(Lower(video.title), negative_keywords)

description_negative(video) ==
    /\ ~title_negative(video)
    /\ video.description # <<>>
    /\ ContainsAny(Lower(video.description), description_keywords)

is_negative(video) == title_negative(video) \/ description_negative(video)

has_artist(video, artist) == Contains(Lower(video.title), LowerTok(artist))

has_title(video, title) == Contains(Lower(video.title), LowerTok(title))

\* ChannelScore counting "official" in the uploader id as well
ChannelScore_official_uploader(video, artist) ==
    IF \/ Lower(video.channel) = <<LowerTok(artist)>>
       \/ Contains(Lower(video.channel), "official")
       \/ Contains(Lower(video.channel), "vevo")
       \/ Contains(Lower(video.uploader_id), "official")
       \/ Contains(Lower(video.uploader_id), "vevo")
    THEN 8
    ELSE IF Contains(Lower(video.channel), LowerTok(artist)) THEN 5
    ELSE IF Contains(Lower(video.channel), "topic") \/ Contains(Lower(video.channel), "various artists")
    THEN -5
    ELSE 0

\* the channel's part of the score
ChannelScore(video, artist) ==
    IF \/ Lower(video.channel) = <<LowerTok(artist)>>
       \/ Contains(Lower(video.channel), "official")
       \/ Contains(Lower(video.channel), "vevo")
       \/ Contains(Lower(video.uploader_id), "vevo")
    THEN 8
    ELSE IF Contains(Lower(video.channel), LowerTok(artist)) THEN 5
    ELSE IF Contains(Lower(video.channel), "topic") \/ Contains(Lower(video.channel), "various artists")
    THEN -5
    ELSE 0

ViewScore(video) ==
    IF video.view_count = 0 THEN 0
    ELSE IF video.view_count > 10000000 THEN 3
    ELSE IF video.view_count > 1000000 THEN 2
    ELSE IF video.view_count > 100000 THEN 1
    ELSE 0

DurationScore(video) ==
    IF video.duration = 0 THEN 0
    ELSE (IF video.duration < 90 THEN -2 ELSE 0) + (IF video.duration > 600 THEN -2 ELSE 0)

Score(video, artist, title) ==
      (IF title_negative(video) THEN (IF is_official_title(video) THEN -5 ELSE -20) ELSE 0)
    + (IF description_negative(video) THEN -5 ELSE 0)
    + (IF is_official_title(video) THEN 10 ELSE 0)
    + ChannelScore(video, artist)
    + (IF has_artist(video, artist) /\ has_title(video, title) THEN 4
       ELSE IF has_title(video, title) THEN 2 ELSE 0)
    + ViewScore(video)
    + (IF video.channel_is_verified THEN 5 ELSE 0)
    + DurationScore(video)

\* Retained without its test of the score
Retained_by_title_only(video, artist, title) ==
    ~is_negative(video) /\ has_title(video, title)

\* the test that keeps a scored result as a candidate
Retained(video, artist, title) ==
    ~is_negative(video) /\ (has_title(video, title) \/ Score(video, artist, title) > 2)

\* a variant in which an override request is filtered like any other
RECURSIVE ScoredCandidates_filtering(_, _, _, _)
ScoredCandidates_filtering(videos, artist, title, is_override) ==
    IF videos = <<>> THEN <<>>
    ELSE LET video == Head(videos)
             rest == ScoredCandidates_filtering(Tail(videos), artist, title, is_override)
         IN  IF Retained(video, artist, title)
             THEN <<Candidate(video, IF is_override THEN NotApplicable
                                     ELSE Score(video, artist, title))>> \o rest
             ELSE rest

\* the candidates list after the scoring loop, in input order
RECURSIVE ScoredCandidates(_, _, _, _)
ScoredCandidates(videos, artist, title, is_override) ==
    IF videos = <<>> THEN <<>>
    ELSE LET video == Head(videos)
             rest == ScoredCandidates(Tail(videos), artist, title, is_override)
         IN  IF is_override THEN <<Candidate(video, NotApplicable)>> \o rest
             ELSE IF Retained(video, artist, title)
                  THEN <<Candidate(video, Score(video, artist, title))>> \o rest
                  ELSE rest

\* list.sort(key=score, reverse=True): stable, equal scores keep their order
RECURSIVE InsertByScore(_, _)
InsertByScore(c, sorted) ==
    IF sorted = <<>> THEN <<c>>
    ELSE IF Head(sorted).score >= c.score THEN <<Head(sorted)>> \o InsertByScore(c, Tail(sorted))
    ELSE <<c>> \o sorted

RECURSIVE SortByScore(_)
SortByScore(cands) ==
    IF cands = <<>> THEN <<>>
    ELSE InsertByScore(cands[Len(cands)], SortByScore(SubSeq(cands, 1, Len(cands) - 1)))

AutoSelects(sorted) ==
    \/ Len(sorted) = 1 /\ sorted[1].score >= 8
    \/ Len(sorted) > 1 /\ sorted[1].score >= sorted[2].score + 7 /\ sorted[1].score >= 12

\* a variant without the priority pass
filter_and_select_no_priority(videos, artist, title, is_override, no_trust_mode) ==
    IF videos = <<>> THEN NoneResult
    ELSE IF no_trust_mode
    THEN IF NoTrustCandidates(videos) = <<>> THEN NoneResult
         ELSE NeedsManual("select", NoTrustCandidates(videos), artist, title)
    ELSE LET candidates == ScoredCandidates(videos, artist, title, is_override)
             sorted == SortByScore(candidates)
         IN  IF candidates = <<>> THEN NoneResult
             ELSE IF is_override THEN NeedsManual("override", candidates, artist, title)
             ELSE IF AutoSelects(sorted) THEN ReturnId(sorted[1].id)
             ELSE NeedsManual("select", sorted, artist, title)

filter_and_select(videos, artist, title, is_override, no_trust_mode) ==
    IF videos = <<>> THEN NoneResult
    ELSE IF no_trust_mode
    THEN IF NoTrustCandidates(videos) = <<>> THEN NoneResult
         ELSE NeedsManual("select", NoTrustCandidates(videos), artist, title)
    ELSE IF ~is_override /\ PriorityHits(videos, artist) # {}
    THEN Selected(videos[Min(PriorityHits(videos, artist))].id)
    ELSE LET candidates == ScoredCandidates(videos, artist, title, is_override)
             sorted == SortByScore(candidates)
         IN  IF candidates = <<>> THEN NoneResult
             ELSE IF is_override THEN NeedsManual("override", candidates, artist, title)
             ELSE IF AutoSelects(sorted) THEN ReturnId(sorted[1].id)
             ELSE NeedsManual("select", sorted, artist, title)

(***************************************************************************)
(* State                                                                   *)
(***************************************************************************)
VARIABLES
    sel_videos,     \* the selector's input list
    sel_override,   \* its is_override argument
    sel_notrust,    \* its no_trust_mode argument
    sel_result,     \* its return value, once called
    \* --- shared between the worker thread and the foreground ---
    gui_queue,              \* event channel, worker -> foreground
    manual_select_queue,    \* decision channel, foreground -> worker
    stop_event,             \* the cancellation flag
    \* --- worker_thread_main ---
    w_pc,           \* where the worker thread is
    w_idx,          \* index of the file it works on (0 before the first)
    w,              \* its per-file locals
    opts,           \* options and mode the thread was started with
    \* --- App ---
    file_status,            \* file_list_data[filepath]['status']
    review_list,
    current_review_item,
    is_reviewing,
    processing_thread,      \* "none" or "thread"
    runs,                   \* how often Start was pressed
    buttons,                \* state of the Start, Review and Stop buttons
    dialogs,                \* open ManualSelectDialogs of interactive mode
    grab,                   \* whether the dialog opened last holds the input grab
    gui_modal,              \* "query" while handle_manual_search waits in askstring
    window,                 \* "open", "closing" (destroy scheduled) or "destroyed"
    rev_pc,                 \* where the review of the entry in flight is
    rev,                    \* locals of process_single_review_item
    rev_timer,              \* whether an after(50, _process_next_review_item) is pending
    \* --- Metadata.pyw, the metadata-transfer tool ---
    log_queue,      \* the module's log_queue
    md_pc,          \* where process_files_thread is
    md,             \* its locals
    start_button,   \* state of MetadataApp.start_button
    md_runs         \* how often its Start was pressed

toolvars == <<log_queue, md_pc, md, start_button, md_runs>>

selvars == <<sel_videos, sel_override, sel_notrust, sel_result>>

sharedvars == <<gui_queue, manual_select_queue, stop_event>>

workervars == <<w_pc, w_idx, w, opts>>

appvars == <<file_status, review_list, current_review_item, is_reviewing,
             processing_thread, runs, buttons, dialogs, grab, gui_modal, window>>

reviewvars == <<rev_pc, rev, rev_timer>>

sysvars == <<sharedvars, workervars, appvars, reviewvars>>

vars == <<selvars, sysvars, toolvars>>

Pending == [type |-> "pending"]

(***************************************************************************)
(* Statuses, files, messages                                               *)
(***************************************************************************)
\* the status texts, without the pictograph each starts with in the source
STATUS_QUEUED == "Queued"
STATUS_PROCESSING == "Processing..."
STATUS_SEARCHING == "Searching..."
STATUS_FILTERING == "Filtering..."
STATUS_DOWNLOADING == "Downloading..."
STATUS_COMPLETE == "Complete"
STATUS_FAILED_META == "No Meta"
STATUS_FAILED_SEARCH == "No Search Results"
STATUS_FAILED_FILTER == "No Suitable Video"
STATUS_FAILED_DOWNLOAD == "Download Failed"
STATUS_SKIPPED_MANUAL == "Skipped (Manual)"
STATUS_EXISTS == "Exists"
STATUS_ERROR == "Error"
STATUS_FAILED_ALL == "Exhausted"
STATUS_NEEDS_REVIEW == "Needs Review"
STATUS_REVIEWING == "Reviewing..."

\* the scanned files, in sorted path order; every file carries the tags
\* artist "Artist" and title "Song" when its metadata can be read
Files == 1..NumFiles

StatusUpdate(filepath, status) ==
    [type |-> "status_update", filepath |-> filepath, status |-> status]

ReviewNeeded(filepath, reason, candidates) ==
    [type |-> "review_needed", filepath |-> filepath, reason |-> reason,
     candidates |-> candidates, artist |-> "Artist", title |-> "Song"]

AskManualSelect(filepath, candidates, is_override) ==
    [type |-> "ask_manual_select", filepath |-> filepath, candidates |-> candidates,
     is_override |-> is_override]

AskManualSearch(filepath) == [type |-> "ask_manual_search", filepath |-> filepath]

ErrorMessage == [type |-> "error_message"]

InitialPassComplete == [type |-> "initial_pass_complete"]

\* values that travel on the decision channel besides video ids and None
STOP_SIGNAL == "stop_signal"
QUIT == "quit"
FILENAME_SEARCH == "__FILENAME_SEARCH__"

\* what the human may type into the manual-search prompt (after strip(), not
\* blank): any text, the word "quit" among them
QueryTexts == {"some query", "quit"}

\* os.path.splitext(os.path.basename(filepath))[0], the query of a filename search
FileBaseName == "file name"

(***************************************************************************)
(* The search tool: _worker_search_videos / perform_search                 *)
(***************************************************************************)
\* a result list the priority pass selects from, one the filter cannot decide,
\* and one the filter rejects entirely
ResultOfficial ==
    WithIds(<<Video(<<"Artist", "Song", "Official Video">>, <<"Artist", "VEVO">>, <<>>, FALSE, <<>>, 0, 200, TRUE)>>)

ResultAmbiguous ==
    WithIds(<<Video(<<"Artist", "Song">>, <<"other">>, <<>>, FALSE, <<>>, 0, 200, TRUE),
              Video(<<"song">>, <<"other">>, <<>>, FALSE, <<>>, 0, 200, FALSE)>>)

ResultRejected ==
    WithIds(<<Video(<<"artist", "song", "Lyric">>, <<"other">>, <<>>, FALSE, <<>>, 0, 200, TRUE)>>)

\* what a run of the search tool can come to: the tool is missing, it exits
\* with an error, it runs into the 60 s timeout, or it prints a result list
SearchOutcomes ==
    {[kind |-> k, videos |-> <<>>] : k \in {"not_found", "failed", "timeout"}}
    \cup {[kind |-> "videos", videos |-> v] :
             v \in {<<>>, ResultOfficial, ResultAmbiguous, ResultRejected}}

\* what the search function returns for an outcome: ok = FALSE is the return
\* of None, ok = TRUE the return of a list
worker_search_videos(outcome) ==
    IF outcome.kind \in {"not_found", "failed"} THEN [ok |-> FALSE, videos |-> <<>>]
    ELSE IF outcome.kind = "timeout" THEN [ok |-> TRUE, videos |-> <<>>]
    ELSE [ok |-> TRUE, videos |-> outcome.videos]

\* perform_search returns the same values for the same outcomes
SearchReturns == {worker_search_videos(o) : o \in SearchOutcomes}

(***************************************************************************)
(* worker_thread_main                                                      *)
(***************************************************************************)
NoLocals ==
    [selected_video_id |-> None, final_status |-> None, search_error |-> FALSE,
     needs_manual_action |-> FALSE, action_reason |-> None, action_candidates |-> <<>>,
     videos_found_at_all |-> FALSE, manual_query |-> None,
     \* not locals of the code: the status the item's row was last given by the
     \* worker, and whether the latest search call ran into its timeout
     last_status |-> None, timed_out |-> FALSE,
     \* nor is this one: where a video file with the item's prefix lies when
     \* the item is taken up ("none", "input" or "output" directory)
     existing_video |-> "none"]

NoOptions == [interactive_mode |-> FALSE, no_trust_mode |-> FALSE, override_existing |-> FALSE]

WorkerAlive == w_pc \notin {"none", "dead"}

\* processing_thread and processing_thread.is_alive()
is_worker_running == processing_thread = "thread" /\ WorkerAlive

\* Emit putting its messages in front of the waiting ones
Emit_in_front(msgs) == gui_queue' = msgs \o gui_queue

\* gui_queue.put for each of msgs
Emit(msgs) == gui_queue' = gui_queue \o msgs

\* the status a message gives the row of its file (None: it gives none)
StatusOf(message) ==
    IF message.type = "status_update" THEN message.status
    ELSE IF message.type = "review_needed" THEN STATUS_NEEDS_REVIEW
    ELSE None

\* the last status that msgs give, or before if they give none
RECURSIVE LastStatus(_, _)
LastStatus(msgs, before) ==
    IF msgs = <<>> THEN before
    ELSE LastStatus(Tail(msgs), IF StatusOf(Head(msgs)) # None THEN StatusOf(Head(msgs)) ELSE before)

\* the locals once msgs were put on the event channel
Shown(loc, msgs) == [loc EXCEPT !.last_status = LastStatus(msgs, loc.last_status)]

\* leaving the loop (break, or the list is exhausted): the finally clause
\* puts the pass-complete message
Finish(msgs) ==
    /\ Emit(msgs \o <<InitialPassComplete>>)
    /\ w_pc' = "exiting"

\* the locals after a filter result was taken in by a normal attempt
TakeFilterResult(loc, fr) ==
    IF fr.type = "selected" THEN [loc EXCEPT !.selected_video_id = fr.id]
    ELSE IF fr.type = "manual"
    THEN [loc EXCEPT !.needs_manual_action = TRUE, !.action_reason = fr.reason,
                     !.action_candidates = fr.candidates]
    ELSE loc

\* TakeForcedResult dropping the candidates of the forced attempt
TakeForcedResult_drops(loc, fr) == [loc EXCEPT !.final_status = STATUS_FAILED_FILTER]

\* the locals after a filter result was taken in by a forced manual attempt
TakeForcedResult(loc, fr) ==
    IF fr.type = "manual"
    THEN [loc EXCEPT !.needs_manual_action = TRUE, !.action_reason = fr.reason,
                     !.action_candidates = fr.candidates]
    ELSE [loc EXCEPT !.final_status = STATUS_FAILED_FILTER]

\* MoreAttempts without its tests of a selection and of an escalation
MoreAttempts_ignores_result(loc) ==
    /\ ~loc.search_error
    /\ ~stop_event
    /\ ~opts.no_trust_mode

\* MoreAttempts without its test of the search error
MoreAttempts_ignores_error(loc) ==
    /\ loc.selected_video_id = None
    /\ ~loc.needs_manual_action
    /\ ~stop_event
    /\ ~opts.no_trust_mode

\* the guard of attempts 2 and 3
MoreAttempts(loc) ==
    /\ loc.selected_video_id = None
    /\ ~loc.needs_manual_action
    /\ ~loc.search_error
    /\ ~stop_event
    /\ ~opts.no_trust_mode

\* the notice the search function itself puts on the event channel
SearchNotice(outcome) ==
    IF outcome.kind = "not_found" THEN <<ErrorMessage>> ELSE <<>>

\* the locals with the note of whether the search call timed out
Searched(loc, outcome) == [loc EXCEPT !.timed_out = (outcome.kind = "timeout")]

\* the top of the for loop without its stop check
W_Top_ignores_stop ==
    /\ w_pc = "top"
    /\ IF w_idx = NumFiles
       THEN Finish(<<>>) /\ UNCHANGED <<w_idx, w>>
       ELSE /\ w_idx' = w_idx + 1
            /\ Emit(<<StatusUpdate(w_idx + 1, STATUS_PROCESSING)>>)
            /\ \E place \in {"none", "input", "output"} :
                  w' = Shown([NoLocals EXCEPT !.existing_video = place],
                             <<StatusUpdate(w_idx + 1, STATUS_PROCESSING)>>)
            /\ w_pc' = "meta"
    /\ UNCHANGED <<manual_select_queue, stop_event, opts, appvars, reviewvars, selvars, toolvars>>

\* top of the for loop: stop check, progress and Processing status
W_Top ==
    /\ w_pc = "top"
    /\ IF w_idx = NumFiles \/ stop_event
       THEN Finish(<<>>) /\ UNCHANGED <<w_idx, w>>
       ELSE /\ w_idx' = w_idx + 1
            /\ Emit(<<StatusUpdate(w_idx + 1, STATUS_PROCESSING)>>)
            /\ \E place \in {"none", "input", "output"} :
                  w' = Shown([NoLocals EXCEPT !.existing_video = place],
                             <<StatusUpdate(w_idx + 1, STATUS_PROCESSING)>>)
            /\ w_pc' = "meta"
    /\ UNCHANGED <<manual_select_queue, stop_event, opts, appvars, reviewvars, selvars, toolvars>>

\* the existing-file check looking into the input directory only
video_already_exists_input_only(place) == place = "input"

\* the existing-file check: the input directory, then the output directory
video_already_exists(place) == place = "input" \/ place = "output"

\* metadata, existing-file check, start of the official search
W_Meta ==
    /\ w_pc = "meta"
    /\ \E meta_ok \in BOOLEAN :
          IF ~meta_ok
          THEN Emit(<<StatusUpdate(w_idx, STATUS_FAILED_META)>>) /\ w_pc' = "top" /\ w' = NoLocals
          ELSE IF stop_event
          THEN Finish(<<>>) /\ w' = NoLocals
          ELSE IF ~opts.override_existing /\ video_already_exists(w.existing_video)
          THEN Emit(<<StatusUpdate(w_idx, STATUS_EXISTS)>>) /\ w_pc' = "top" /\ w' = NoLocals
          ELSE /\ w' = Shown(NoLocals, <<StatusUpdate(w_idx, STATUS_SEARCHING)>>)
               /\ Emit(<<StatusUpdate(w_idx, STATUS_SEARCHING)>>)
               /\ w_pc' = "search1"
    /\ UNCHANGED <<manual_select_queue, stop_event, w_idx, opts, appvars, reviewvars, selvars, toolvars>>

\* Attempt1 letting the filter select in no-trust mode too
Attempt1_trusts(r) ==
    IF ~r.ok THEN [w EXCEPT !.search_error = TRUE]
    ELSE IF r.videos = <<>> THEN w
    ELSE TakeFilterResult([w EXCEPT !.videos_found_at_all = TRUE],
                          filter_and_select(r.videos, "Artist", "Song", FALSE, FALSE))

\* attempt 1: the official search returns and is filtered
Attempt1(r) ==
    IF ~r.ok THEN [w EXCEPT !.search_error = TRUE]
    ELSE IF r.videos = <<>> THEN w
    ELSE IF opts.no_trust_mode
    THEN TakeForcedResult([w EXCEPT !.videos_found_at_all = TRUE],
                          filter_and_select(r.videos, "Artist", "Song", TRUE, TRUE))
    ELSE TakeFilterResult([w EXCEPT !.videos_found_at_all = TRUE],
                          filter_and_select(r.videos, "Artist", "Song", FALSE, FALSE))

W_Search1 ==
    /\ w_pc = "search1"
    /\ \E outcome \in SearchOutcomes :
          IF stop_event
          THEN Finish(SearchNotice(outcome)) /\ w' = NoLocals
          ELSE LET r == worker_search_videos(outcome)
                   loc == Searched(Attempt1(r), outcome)
                   filtering == IF r.ok /\ r.videos # <<>> /\ ~opts.no_trust_mode
                                THEN <<StatusUpdate(w_idx, STATUS_FILTERING)>> ELSE <<>>
                   msgs == SearchNotice(outcome) \o filtering
                           \o (IF MoreAttempts(loc)
                               THEN <<StatusUpdate(w_idx, STATUS_SEARCHING)>> ELSE <<>>)
               IN  /\ w' = Shown(loc, msgs)
                   /\ Emit(msgs)
                   /\ w_pc' = IF MoreAttempts(loc) THEN "search2" ELSE "decide"
    /\ UNCHANGED <<manual_select_queue, stop_event, w_idx, opts, appvars, reviewvars, selvars, toolvars>>

\* attempt 2: the fallback search returns and is filtered; then attempt 3 starts
Attempt2(r) ==
    IF ~r.ok THEN [w EXCEPT !.search_error = TRUE]
    ELSE IF r.videos = <<>> THEN w
    ELSE TakeFilterResult([w EXCEPT !.videos_found_at_all = TRUE],
                          filter_and_select(r.videos, "Artist", "Song", FALSE, FALSE))

\* W_Search2 going on without an escalation when nothing was found
W_Search2_gives_up ==
    /\ w_pc = "search2"
    /\ \E outcome \in SearchOutcomes :
          IF stop_event
          THEN Finish(SearchNotice(outcome)) /\ w' = NoLocals
          ELSE LET r == worker_search_videos(outcome)
                   loc == Searched(Attempt2(r), outcome)
                   filtering == SearchNotice(outcome)
                                \o (IF r.ok /\ r.videos # <<>>
                                    THEN <<StatusUpdate(w_idx, STATUS_FILTERING)>> ELSE <<>>)
               IN  IF ~MoreAttempts(loc)
                   THEN w' = Shown(loc, filtering) /\ Emit(filtering) /\ w_pc' = "decide"
                   ELSE IF loc.videos_found_at_all
                   THEN w' = Shown(loc, filtering) /\ Emit(filtering) /\ w_pc' = "search3"
                   ELSE w' = Shown(loc, filtering) /\ Emit(filtering) /\ w_pc' = "decide"
    /\ UNCHANGED <<manual_select_queue, stop_event, w_idx, opts, appvars, reviewvars, selvars, toolvars>>

W_Search2 ==
    /\ w_pc = "search2"
    /\ \E outcome \in SearchOutcomes :
          IF stop_event
          THEN Finish(SearchNotice(outcome)) /\ w' = NoLocals
          ELSE LET r == worker_search_videos(outcome)
                   loc == Searched(Attempt2(r), outcome)
                   filtering == SearchNotice(outcome)
                                \o (IF r.ok /\ r.videos # <<>>
                                    THEN <<StatusUpdate(w_idx, STATUS_FILTERING)>> ELSE <<>>)
               IN  IF ~MoreAttempts(loc)
                   THEN w' = Shown(loc, filtering) /\ Emit(filtering) /\ w_pc' = "decide"
                   ELSE IF loc.videos_found_at_all
                   THEN w' = Shown(loc, filtering) /\ Emit(filtering) /\ w_pc' = "search3"
                   ELSE IF opts.interactive_mode
                   THEN /\ w' = Shown(loc, filtering)
                        /\ Emit(filtering \o <<AskManualSearch(w_idx)>>)
                        /\ w_pc' = "wait_query"
                   ELSE /\ w' = Shown([loc EXCEPT !.final_status = STATUS_NEEDS_REVIEW],
                                      filtering \o <<ReviewNeeded(w_idx, "search", <<>>)>>)
                        /\ Emit(filtering \o <<ReviewNeeded(w_idx, "search", <<>>)>>)
                        /\ w_pc' = "decide"
    /\ UNCHANGED <<manual_select_queue, stop_event, w_idx, opts, appvars, reviewvars, selvars, toolvars>>

\* attempt 3 with earlier results: the unfiltered search returns
W_Search3 ==
    /\ w_pc = "search3"
    /\ \E outcome \in SearchOutcomes :
          IF stop_event
          THEN Finish(SearchNotice(outcome)) /\ w' = NoLocals
          ELSE LET r == worker_search_videos(outcome)
                   loc == IF ~r.ok THEN [w EXCEPT !.search_error = TRUE]
                          ELSE IF r.videos = <<>>
                          THEN [w EXCEPT !.final_status = STATUS_FAILED_SEARCH]
                          ELSE TakeForcedResult(w, filter_and_select(r.videos, "Artist", "Song",
                                                                     TRUE, FALSE))
               IN  /\ w' = Searched(loc, outcome)
                   /\ Emit(SearchNotice(outcome))
                   /\ w_pc' = "decide"
    /\ UNCHANGED <<manual_select_queue, stop_event, w_idx, opts, appvars, reviewvars, selvars, toolvars>>

\* attempt 3 without any result, interactive: the answer to the query prompt
W_GetQuery ==
    /\ w_pc = "wait_query"
    /\ manual_select_queue # <<>>
    /\ manual_select_queue' = Tail(manual_select_queue)
    /\ LET manual_query_result == Head(manual_select_queue)
       IN  IF manual_query_result \in {STOP_SIGNAL, QUIT}
           THEN stop_event' = TRUE /\ Finish(<<>>) /\ w' = NoLocals
           ELSE IF manual_query_result = None
           THEN /\ w' = [w EXCEPT !.final_status = STATUS_SKIPPED_MANUAL]
                /\ w_pc' = "decide"
                /\ UNCHANGED <<gui_queue, stop_event>>
           ELSE /\ Emit(<<StatusUpdate(w_idx, STATUS_SEARCHING)>>)
                /\ w' = [Shown(w, <<StatusUpdate(w_idx, STATUS_SEARCHING)>>)
                           EXCEPT !.manual_query =
                                     IF manual_query_result = FILENAME_SEARCH
                                     THEN FileBaseName ELSE manual_query_result]
                /\ w_pc' = "search_manual"
                /\ UNCHANGED stop_event
    /\ UNCHANGED <<w_idx, opts, appvars, reviewvars, selvars, toolvars>>

\* the manual search for w.manual_query returns; the query is not read again
\* and is dropped here
W_SearchManual ==
    /\ w_pc = "search_manual"
    /\ \E outcome \in SearchOutcomes :
          IF stop_event
          THEN Finish(SearchNotice(outcome)) /\ w' = NoLocals
          ELSE LET r == worker_search_videos(outcome)
                   loc == Searched([w EXCEPT !.manual_query = None], outcome)
               IN  IF ~r.ok
                   THEN /\ w' = [loc EXCEPT !.final_status = STATUS_ERROR]
                        /\ w_pc' = "decide"
                        /\ Emit(SearchNotice(outcome))
                   ELSE IF r.videos = <<>>
                   THEN /\ w' = [loc EXCEPT !.final_status = STATUS_FAILED_SEARCH]
                        /\ w_pc' = "decide"
                        /\ UNCHANGED gui_queue
                   ELSE LET fr == filter_and_select(r.videos, "Artist", "Song", TRUE, FALSE)
                            filtering == <<StatusUpdate(w_idx, STATUS_FILTERING)>>
                        IN  IF fr.type = "manual"
                            THEN /\ Emit(filtering \o <<AskManualSelect(w_idx, fr.candidates, FALSE)>>)
                                 /\ w_pc' = "wait_override"
                                 /\ w' = Shown(loc, filtering)
                            ELSE /\ Emit(filtering)
                                 /\ w' = Shown([loc EXCEPT !.final_status = STATUS_FAILED_FILTER],
                                               filtering)
                                 /\ w_pc' = "decide"
    /\ UNCHANGED <<manual_select_queue, stop_event, w_idx, opts, appvars, reviewvars, selvars, toolvars>>

\* the answer to the override selection after a manual search
W_GetOverride ==
    /\ w_pc = "wait_override"
    /\ manual_select_queue # <<>>
    /\ manual_select_queue' = Tail(manual_select_queue)
    /\ LET answer == Head(manual_select_queue)
       IN  IF answer \in {STOP_SIGNAL, QUIT}
           THEN stop_event' = TRUE /\ Finish(<<>>) /\ w' = NoLocals
           ELSE /\ w' = [w EXCEPT !.selected_video_id = answer]
                /\ w_pc' = "decide"
                /\ UNCHANGED <<gui_queue, stop_event>>
    /\ UNCHANGED <<w_idx, opts, appvars, reviewvars, selvars, toolvars>>

\* W_Decide asking the human whatever the mode
W_Decide_always_asks ==
    /\ w_pc = "decide"
    /\ IF w.needs_manual_action /\ w.selected_video_id = None /\ w.final_status = None /\ ~stop_event
       THEN /\ Emit(<<AskManualSelect(w_idx, w.action_candidates, w.action_reason = "override")>>)
            /\ w_pc' = "wait_select"
            /\ UNCHANGED w
       ELSE w_pc' = "final" /\ UNCHANGED <<gui_queue, w>>
    /\ UNCHANGED <<manual_select_queue, stop_event, w_idx, opts, appvars, reviewvars, selvars, toolvars>>

\* handling of a flagged manual action: ask (interactive) or queue for review
W_Decide ==
    /\ w_pc = "decide"
    /\ IF w.needs_manual_action /\ w.selected_video_id = None /\ w.final_status = None /\ ~stop_event
       THEN IF opts.interactive_mode
            THEN /\ Emit(<<AskManualSelect(w_idx, w.action_candidates, w.action_reason = "override")>>)
                 /\ w_pc' = "wait_select"
                 /\ UNCHANGED w
            ELSE /\ Emit(<<ReviewNeeded(w_idx, w.action_reason, w.action_candidates)>>)
                 /\ w' = Shown([w EXCEPT !.final_status = STATUS_NEEDS_REVIEW],
                               <<ReviewNeeded(w_idx, w.action_reason, w.action_candidates)>>)
                 /\ w_pc' = "final"
       ELSE w_pc' = "final" /\ UNCHANGED <<gui_queue, w>>
    /\ UNCHANGED <<manual_select_queue, stop_event, w_idx, opts, appvars, reviewvars, selvars, toolvars>>

\* W_GetSelect reporting the item as skipped when the sentinel unblocks it
W_GetSelect_reports_skipped ==
    /\ w_pc = "wait_select"
    /\ manual_select_queue # <<>>
    /\ manual_select_queue' = Tail(manual_select_queue)
    /\ LET answer == Head(manual_select_queue)
       IN  IF answer \in {STOP_SIGNAL, QUIT}
           THEN /\ stop_event' = TRUE
                /\ Finish(<<StatusUpdate(w_idx, STATUS_SKIPPED_MANUAL)>>)
                /\ w' = NoLocals
           ELSE /\ w' = [w EXCEPT !.selected_video_id = answer]
                /\ w_pc' = "final"
                /\ UNCHANGED <<gui_queue, stop_event>>
    /\ UNCHANGED <<w_idx, opts, appvars, reviewvars, selvars, toolvars>>

\* the answer to the interactive selection
W_GetSelect ==
    /\ w_pc = "wait_select"
    /\ manual_select_queue # <<>>
    /\ manual_select_queue' = Tail(manual_select_queue)
    /\ LET answer == Head(manual_select_queue)
       IN  IF answer \in {STOP_SIGNAL, QUIT}
           THEN stop_event' = TRUE /\ Finish(<<>>) /\ w' = NoLocals
           ELSE /\ w' = [w EXCEPT !.selected_video_id = answer]
                /\ w_pc' = "final"
                /\ UNCHANGED <<gui_queue, stop_event>>
    /\ UNCHANGED <<w_idx, opts, appvars, reviewvars, selvars, toolvars>>

\* the polite delay is skipped after a stop and after queueing for review
AfterItem(final_status) ==
    IF final_status # STATUS_NEEDS_REVIEW THEN "delay" ELSE "top"

\* FailureStatus with its two statuses exchanged
FailureStatus_exchanged(loc) == IF loc.search_error THEN STATUS_FAILED_ALL ELSE STATUS_ERROR

\* the failure status of an item that ends with no id and no status yet
FailureStatus(loc) == IF loc.search_error THEN STATUS_ERROR ELSE STATUS_FAILED_ALL

\* final outcome processing: start the download or report the failure; the
\* per-file locals are dead once the item is left and are reset here
W_Final ==
    /\ w_pc = "final"
    /\ \E output_dir_ok \in BOOLEAN :
          IF stop_event
          THEN Finish(<<>>) /\ w' = NoLocals
          ELSE IF Truthy(w.selected_video_id)
          THEN IF output_dir_ok
               THEN /\ Emit(<<StatusUpdate(w_idx, STATUS_DOWNLOADING)>>)
                    /\ w_pc' = "download"
                    /\ w' = Shown(w, <<StatusUpdate(w_idx, STATUS_DOWNLOADING)>>)
               ELSE /\ Emit(<<StatusUpdate(w_idx, STATUS_ERROR)>>)
                    /\ w_pc' = "top"
                    /\ w' = NoLocals
          ELSE IF w.final_status = None
          THEN /\ Emit(<<StatusUpdate(w_idx, FailureStatus(w))>>)
               /\ w' = NoLocals
               /\ w_pc' = "delay"
          ELSE /\ w_pc' = AfterItem(w.final_status)
               /\ w' = NoLocals
               /\ UNCHANGED gui_queue
    /\ UNCHANGED <<manual_select_queue, stop_event, w_idx, opts, appvars, reviewvars, selvars, toolvars>>

\* perform_download returns
W_Download ==
    /\ w_pc = "download"
    /\ \E download_success \in BOOLEAN :
          IF stop_event
          THEN Finish(<<>>)
          ELSE /\ Emit(<<StatusUpdate(w_idx, IF download_success THEN STATUS_COMPLETE
                                                                ELSE STATUS_FAILED_DOWNLOAD)>>)
               /\ w_pc' = "delay"
    /\ w' = NoLocals
    /\ UNCHANGED <<manual_select_queue, stop_event, w_idx, opts, appvars, reviewvars, selvars, toolvars>>

\* W_Delay without the tests of the stop flag
W_Delay_sleeps_on ==
    /\ w_pc = "delay"
    /\ \E elapsed \in BOOLEAN : w_pc' = IF elapsed THEN "top" ELSE "sleeping"
    /\ UNCHANGED <<sharedvars, w_idx, w, opts, appvars, reviewvars, selvars, toolvars>>

\* the polite delay: `if not stop_event.is_set()` and the test of the while
\* loop with its `if stop_event.is_set(): break`; whether the delay has
\* elapsed depends on options['download_delay'] and is left open
W_Delay ==
    /\ w_pc = "delay"
    /\ IF stop_event THEN w_pc' = "top"
       ELSE \E elapsed \in BOOLEAN : w_pc' = IF elapsed THEN "top" ELSE "sleeping"
    /\ UNCHANGED <<sharedvars, w_idx, w, opts, appvars, reviewvars, selvars, toolvars>>

\* one slice of the delay: time.sleep(delay_step); elapsed_delay += delay_step
W_Sleep ==
    /\ w_pc = "sleeping"
    /\ w_pc' = "delay"
    /\ UNCHANGED <<sharedvars, w_idx, w, opts, appvars, reviewvars, selvars, toolvars>>

\* the places of the loop body where the worker runs code of its own
LoopBody == {"meta", "search1", "search2", "search3", "search_manual", "decide",
             "final", "download"}

\* W_Raise without the finally clause
W_Raise_no_finally ==
    /\ w_pc \in LoopBody
    /\ Emit(<<ErrorMessage>>)
    /\ w_pc' = "exiting"
    /\ w' = NoLocals
    /\ UNCHANGED <<manual_select_queue, stop_event, w_idx, opts, appvars, reviewvars, selvars, toolvars>>

\* an exception nobody expected escapes the loop body: the except clause
\* reports it and the finally clause puts the pass-complete message
W_Raise ==
    /\ w_pc \in LoopBody
    /\ Finish(<<ErrorMessage>>)
    /\ w' = NoLocals
    /\ UNCHANGED <<manual_select_queue, stop_event, w_idx, opts, appvars, reviewvars, selvars, toolvars>>

\* the thread function returns
W_Exit ==
    /\ w_pc = "exiting"
    /\ w_pc' = "dead"
    /\ UNCHANGED <<sharedvars, w_idx, w, opts, appvars, reviewvars, selvars, toolvars>>

Worker ==
    \/ W_Top \/ W_Meta \/ W_Search1 \/ W_Search2 \/ W_Search3
    \/ W_GetQuery \/ W_SearchManual \/ W_GetOverride
    \/ W_Decide \/ W_GetSelect \/ W_Final \/ W_Download \/ W_Delay \/ W_Sleep \/ W_Raise \/ W_Exit

(***************************************************************************)
(* App: the foreground                                                     *)
(***************************************************************************)
\* self.current_review_item = None
NoReviewItem == [type |-> "none"]

\* no call of process_single_review_item is suspended under the running one
NoFrame == [pc |-> "idle"]

\* the locals of a call of process_single_review_item; outer is the call in
\* whose event loop (self.update() or wait_window) this call was started
Frame(item, candidates, outer) == [item |-> item, candidates |-> candidates, outer |-> outer]

\* no review entry in flight
NoReview == Frame(NoReviewItem, <<>>, NoFrame)

\* a file that has no entry in file_list_data (and no row in the list)
NotListed == "(not listed)"

NothingListed(fs) == \A f \in Files : fs[f] = NotListed

\* update_file_status: `if filepath in self.file_list_data`
SetStatus(fs, filepath, status) ==
    IF fs[filepath] = NotListed THEN fs ELSE [fs EXCEPT ![filepath] = status]

\* file_list_data after scan_music_files on a music directory that holds the
\* audio files Files: the walk returns at the first file when stop_event is set
scan_music_files == IF stop_event THEN [f \in Files |-> NotListed]
                    ELSE [f \in Files |-> STATUS_QUEUED]

\* UpdateButtons enabling Start whether or not the worker runs
UpdateButtons_ignores_worker(btns, running, reviewing, list) ==
    [btns EXCEPT
        !.start = IF ~reviewing THEN "normal" ELSE "disabled",
        !.review = IF list # <<>> /\ ~reviewing THEN "normal" ELSE "disabled"]

\* _update_button_states_after_processing, given the values it reads
UpdateButtons(btns, running, reviewing, list) ==
    [btns EXCEPT
        !.start = IF ~running /\ ~reviewing THEN "normal" ELSE "disabled",
        !.review = IF list # <<>> /\ ~reviewing THEN "normal" ELSE "disabled"]

\* the main window exists and its event loop dispatches timers
WindowExists == window # "destroyed"

\* a modal window of the review phase (selection dialog or query prompt) is up
ReviewModal == rev_pc \in {"dialog", "query"}

\* a click on a button of the main window reaches its command
ClickReaches == WindowExists /\ ~grab /\ gui_modal = "none" /\ ~ReviewModal

\* what the human can answer in a selection dialog: skip (or close the
\* window), one of the listed candidates that has an id, or a pasted URL
URL_ID == "urlvideo01"

DialogAnswers(candidates) ==
    {None, URL_ID} \cup ({candidates[i].id : i \in 1..Len(candidates)} \ {None})

\* what askstring returns, after handle_manual_search's strip(): a query
\* text, blank (filename search) or cancel
QueryAnswers == QueryTexts \cup {FILENAME_SEARCH, None}

\* process_gui_queue, one message
GuiHandleMessage ==
    /\ WindowExists /\ gui_modal = "none"
    /\ gui_queue # <<>>
    /\ gui_queue' = Tail(gui_queue)
    /\ LET message == Head(gui_queue)
       IN  CASE message.type = "status_update" ->
                   /\ file_status' = SetStatus(file_status, message.filepath, message.status)
                   /\ UNCHANGED <<review_list, processing_thread, buttons, dialogs, grab, gui_modal>>
             [] message.type = "review_needed" ->
                   /\ review_list' = Append(review_list, message)
                   /\ file_status' = SetStatus(file_status, message.filepath, STATUS_NEEDS_REVIEW)
                   /\ buttons' = IF ~is_reviewing THEN [buttons EXCEPT !.review = "normal"] ELSE buttons
                   /\ UNCHANGED <<processing_thread, dialogs, grab, gui_modal>>
             [] message.type = "ask_manual_select" ->
                   /\ dialogs' = Append(dialogs, message)
                   /\ grab' = TRUE
                   /\ UNCHANGED <<file_status, review_list, processing_thread, buttons, gui_modal>>
             [] message.type = "ask_manual_search" ->
                   /\ gui_modal' = "query"
                   /\ UNCHANGED <<file_status, review_list, processing_thread, buttons, dialogs, grab>>
             [] message.type = "error_message" ->
                   \* messagebox.showerror
                   UNCHANGED <<file_status, review_list, processing_thread, buttons, dialogs,
                               grab, gui_modal>>
             [] message.type = "initial_pass_complete" ->
                   \* on_initial_pass_finished
                   /\ processing_thread' = "none"
                   /\ buttons' = UpdateButtons([buttons EXCEPT !.stop = "disabled"],
                                               FALSE, is_reviewing, review_list)
                   /\ UNCHANGED <<file_status, review_list, dialogs, grab, gui_modal>>
    /\ UNCHANGED <<manual_select_queue, stop_event, workervars, current_review_item,
                   is_reviewing, runs, window, reviewvars, selvars, toolvars>>

\* handle_manual_search: the human answers the query prompt
AnswerQuery ==
    /\ WindowExists /\ gui_modal = "query"
    /\ \E user_query \in QueryAnswers :
          manual_select_queue' = Append(manual_select_queue, user_query)
    /\ gui_modal' = "none"
    /\ UNCHANGED <<gui_queue, stop_event, workervars, file_status, review_list,
                   current_review_item, is_reviewing, processing_thread, runs, buttons,
                   dialogs, grab, window, reviewvars, selvars, toolvars>>

\* EndDialog putting its result on the channel twice
EndDialog_puts_twice(i, result) ==
    /\ WindowExists
    /\ i \in 1..Len(dialogs)
    /\ grab => i = Len(dialogs)
    /\ manual_select_queue' = manual_select_queue \o <<result, result>>
    /\ dialogs' = SubSeq(dialogs, 1, i - 1) \o SubSeq(dialogs, i + 1, Len(dialogs))
    /\ grab' = IF i = Len(dialogs) THEN FALSE ELSE grab
    /\ UNCHANGED <<gui_queue, stop_event, workervars, file_status, review_list,
                   current_review_item, is_reviewing, processing_thread, runs, buttons,
                   gui_modal, window, reviewvars, selvars, toolvars>>

\* a ManualSelectDialog of interactive mode ends: _send_result_to_queue and
\* destroy(); under a grab only the topmost dialog takes events
EndDialog(i, result) ==
    /\ WindowExists
    /\ i \in 1..Len(dialogs)
    /\ grab => i = Len(dialogs)
    /\ manual_select_queue' = Append(manual_select_queue, result)
    /\ dialogs' = SubSeq(dialogs, 1, i - 1) \o SubSeq(dialogs, i + 1, Len(dialogs))
    /\ grab' = IF i = Len(dialogs) THEN FALSE ELSE grab
    /\ UNCHANGED <<gui_queue, stop_event, workervars, file_status, review_list,
                   current_review_item, is_reviewing, processing_thread, runs, buttons,
                   gui_modal, window, reviewvars, selvars, toolvars>>

\* the Select button of a listed candidate that has an id
on_select ==
    \E i \in 1..Len(dialogs) :
       \E video_id \in DialogAnswers(dialogs[i].candidates) \ {None, URL_ID} :
          EndDialog(i, video_id)

\* the Use URL button with a URL that holds a video id
use_url == \E i \in 1..Len(dialogs) : EndDialog(i, URL_ID)

\* the Skip button
on_skip == \E i \in 1..Len(dialogs) : EndDialog(i, None)

\* WM_DELETE_WINDOW dropping the dialog without an answer
WM_DELETE_WINDOW_silent ==
    \E i \in 1..Len(dialogs) :
       /\ WindowExists
       /\ grab => i = Len(dialogs)
       /\ dialogs' = SubSeq(dialogs, 1, i - 1) \o SubSeq(dialogs, i + 1, Len(dialogs))
       /\ grab' = IF i = Len(dialogs) THEN FALSE ELSE grab
       /\ UNCHANGED <<sharedvars, workervars, file_status, review_list,
                      current_review_item, is_reviewing, processing_thread, runs, buttons,
                      gui_modal, window, reviewvars, selvars, toolvars>>

\* closing the dialog's window: the protocol handler is on_skip
WM_DELETE_WINDOW == \E i \in 1..Len(dialogs) : EndDialog(i, None)

\* the human ends a ManualSelectDialog of interactive mode
AnswerDialog == on_select \/ use_url \/ on_skip \/ WM_DELETE_WINDOW

Modes == [interactive_mode : BOOLEAN, no_trust_mode : BOOLEAN, override_existing : BOOLEAN]

\* browse_music_dir: the human chooses the music directory and it is scanned
ScanMusicFiles ==
    /\ ClickReaches
    /\ file_status' = scan_music_files
    /\ review_list' = <<>>
    /\ buttons' = [buttons EXCEPT !.review = "disabled"]
    /\ UNCHANGED <<sharedvars, workervars, current_review_item, is_reviewing,
                   processing_thread, runs, dialogs, grab, gui_modal, window,
                   reviewvars, selvars, toolvars>>

\* start_processing (the validations passed): with an empty work list the
\* directory is scanned again, and the call returns if the list stays empty
StartProcessing ==
    /\ ClickReaches /\ buttons.start = "normal"
    /\ IF NothingListed(file_status) /\ NothingListed(scan_music_files)
       THEN /\ file_status' = scan_music_files
            /\ review_list' = <<>>
            /\ buttons' = [buttons EXCEPT !.review = "disabled"]
            /\ UNCHANGED <<sharedvars, workervars, is_reviewing, processing_thread, runs>>
       ELSE /\ runs < MaxRuns
            /\ runs' = runs + 1
            /\ file_status' = IF NothingListed(file_status) THEN scan_music_files
                              ELSE file_status
            /\ stop_event' = FALSE
            /\ review_list' = <<>>
            /\ is_reviewing' = FALSE
            /\ gui_queue' = <<>>
            /\ manual_select_queue' = <<>>
            /\ buttons' = [start |-> "disabled", review |-> "disabled", stop |-> "normal"]
            /\ opts' \in Modes
            /\ processing_thread' = "thread"
            /\ w_pc' = "top" /\ w_idx' = 0 /\ w' = NoLocals
    /\ UNCHANGED <<current_review_item, dialogs, grab, gui_modal, window,
                   reviewvars, selvars, toolvars>>

\* start_review_phase
StartReviewPhase ==
    /\ ClickReaches /\ buttons.review = "normal"
    /\ IF is_reviewing \/ review_list = <<>>
       THEN UNCHANGED <<is_reviewing, buttons, rev_timer>>
       ELSE /\ is_reviewing' = TRUE
            /\ buttons' = [buttons EXCEPT !.review = "disabled", !.start = "disabled"]
            /\ rev_timer' = TRUE
    /\ UNCHANGED <<sharedvars, workervars, file_status, review_list, current_review_item,
                   processing_thread, runs, dialogs, grab, gui_modal, window, rev_pc, rev, selvars, toolvars>>

\* the body of stop_processing with the review branch leaving review_list alone
stop_processing_keeps_list ==
    IF is_worker_running
    THEN /\ stop_event' = TRUE
         /\ manual_select_queue' = Append(manual_select_queue, STOP_SIGNAL)
         /\ buttons' = [buttons EXCEPT !.stop = "disabled"]
         /\ UNCHANGED <<is_reviewing, review_list, file_status, current_review_item>>
    ELSE /\ is_reviewing' = FALSE
         /\ review_list' = review_list
         /\ IF is_reviewing /\ current_review_item # NoReviewItem
            THEN /\ file_status' = SetStatus(file_status, current_review_item.filepath, STATUS_SKIPPED_MANUAL)
                 /\ current_review_item' = NoReviewItem
            ELSE UNCHANGED <<file_status, current_review_item>>
         /\ buttons' = [UpdateButtons(buttons, FALSE, FALSE, review_list) EXCEPT !.stop = "disabled"]
         /\ UNCHANGED <<stop_event, manual_select_queue>>

\* the body of stop_processing without the sentinel for a waiting worker
stop_processing_no_sentinel ==
    IF is_worker_running
    THEN /\ stop_event' = TRUE
         /\ manual_select_queue' = manual_select_queue
         /\ buttons' = [buttons EXCEPT !.stop = "disabled"]
         /\ UNCHANGED <<is_reviewing, review_list, file_status, current_review_item>>
    ELSE /\ is_reviewing' = FALSE
         /\ review_list' = IF is_reviewing THEN <<>> ELSE review_list
         /\ IF is_reviewing /\ current_review_item # NoReviewItem
            THEN /\ file_status' = SetStatus(file_status, current_review_item.filepath, STATUS_SKIPPED_MANUAL)
                 /\ current_review_item' = NoReviewItem
            ELSE UNCHANGED <<file_status, current_review_item>>
         /\ buttons' = [UpdateButtons(buttons, FALSE, FALSE,
                                      IF is_reviewing THEN <<>> ELSE review_list)
                        EXCEPT !.stop = "disabled"]
         /\ UNCHANGED <<stop_event, manual_select_queue>>

\* the body of stop_processing
stop_processing ==
    IF is_worker_running
    THEN /\ stop_event' = TRUE
         /\ manual_select_queue' = Append(manual_select_queue, STOP_SIGNAL)
         /\ buttons' = [buttons EXCEPT !.stop = "disabled"]
         /\ UNCHANGED <<is_reviewing, review_list, file_status, current_review_item>>
    ELSE /\ is_reviewing' = FALSE
         /\ review_list' = IF is_reviewing THEN <<>> ELSE review_list
         /\ IF is_reviewing /\ current_review_item # NoReviewItem
            THEN /\ file_status' = SetStatus(file_status, current_review_item.filepath, STATUS_SKIPPED_MANUAL)
                 /\ current_review_item' = NoReviewItem
            ELSE UNCHANGED <<file_status, current_review_item>>
         /\ buttons' = [UpdateButtons(buttons, FALSE, FALSE,
                                      IF is_reviewing THEN <<>> ELSE review_list)
                        EXCEPT !.stop = "disabled"]
         /\ UNCHANGED <<stop_event, manual_select_queue>>

\* the Stop button
StopProcessing ==
    /\ ClickReaches /\ buttons.stop = "normal"
    /\ stop_processing
    /\ UNCHANGED <<gui_queue, workervars, processing_thread, runs, dialogs, grab, gui_modal,
                   window, reviewvars, selvars, toolvars>>

\* self.destroy(): mainloop returns and the interpreter exits, taking the
\* daemon worker thread with it; nothing of the process state remains
ProcessExits ==
    /\ window' = "destroyed"
    /\ gui_queue' = <<>> /\ manual_select_queue' = <<>> /\ stop_event' = FALSE
    /\ w_pc' = "none" /\ w_idx' = 0 /\ w' = NoLocals /\ opts' = NoOptions
    /\ file_status' = [f \in Files |-> STATUS_QUEUED]
    /\ review_list' = <<>> /\ current_review_item' = NoReviewItem
    /\ is_reviewing' = FALSE /\ processing_thread' = "none" /\ runs' = 0
    /\ buttons' = [start |-> "disabled", review |-> "disabled", stop |-> "disabled"]
    /\ dialogs' = <<>> /\ grab' = FALSE /\ gui_modal' = "none"
    /\ rev_pc' = "idle" /\ rev' = NoReview /\ rev_timer' = FALSE

\* on_closing: the window manager's close request (the human confirms the
\* quit question when a worker is running)
OnClosing ==
    /\ window = "open"
    /\ IF is_worker_running
       THEN /\ stop_processing
            /\ window' = "closing"
            /\ UNCHANGED <<gui_queue, workervars, processing_thread, runs, dialogs, grab,
                           gui_modal, reviewvars>>
       ELSE ProcessExits
    /\ UNCHANGED <<selvars, toolvars>>

\* the destroy scheduled by on_closing
GuiDestroy ==
    /\ window = "closing"
    /\ ProcessExits
    /\ UNCHANGED <<selvars, toolvars>>

(***************************************************************************)
(* App: the review phase                                                   *)
(***************************************************************************)
\* the number of calls of process_single_review_item that have not returned
RECURSIVE FrameDepth(_)
FrameDepth(outer) == IF outer = NoFrame THEN 0 ELSE 1 + FrameDepth(outer.frame.outer)

FramesInFlight == IF rev_pc = "idle" THEN 0 ELSE 1 + FrameDepth(rev.outer)

\* the end of process_single_review_item with a failed entry put back on the queue
ReviewItemEnds_requeues(final_status) ==
    /\ file_status' = SetStatus(file_status, rev.item.filepath, final_status)
    /\ current_review_item' = NoReviewItem
    /\ review_list' = IF final_status \in {STATUS_FAILED_DOWNLOAD, STATUS_ERROR, STATUS_FAILED_SEARCH}
                      THEN Append(review_list, rev.item) ELSE review_list
    /\ rev_timer' = is_reviewing
    /\ rev_pc' = rev.outer.pc
    /\ rev' = IF rev.outer = NoFrame THEN NoReview ELSE rev.outer.frame

\* the end of process_single_review_item (its finally clause) and the
\* rescheduling in _process_next_review_item
ReviewItemEnds(final_status) ==
    /\ file_status' = SetStatus(file_status, rev.item.filepath, final_status)
    /\ current_review_item' = NoReviewItem
    /\ review_list' = review_list
    /\ rev_timer' = is_reviewing
    /\ rev_pc' = rev.outer.pc
    /\ rev' = IF rev.outer = NoFrame THEN NoReview ELSE rev.outer.frame

\* _process_next_review_item without its check of the is_reviewing flag
ProcessNextReviewItem_ignores_flag ==
    /\ WindowExists /\ rev_timer /\ rev_pc = "idle"
    /\ rev_timer' = FALSE
    /\ IF review_list = <<>>
       THEN /\ is_reviewing' = FALSE
            /\ buttons' = UpdateButtons(buttons, is_worker_running, FALSE, review_list)
            /\ UNCHANGED <<review_list, current_review_item, file_status, rev_pc, rev>>
       ELSE LET review_item == Head(review_list)
            IN  /\ review_list' = Tail(review_list)
                /\ current_review_item' = review_item
                /\ file_status' = SetStatus(file_status, review_item.filepath, STATUS_REVIEWING)
                /\ rev' = Frame(review_item, review_item.candidates, NoFrame)
                /\ rev_pc' = "update_reviewing"
                /\ UNCHANGED <<is_reviewing, buttons>>
    /\ UNCHANGED <<sharedvars, workervars, processing_thread, runs, dialogs, grab, gui_modal,
                   window, selvars, toolvars>>

\* _process_next_review_item popping the entry queued last
ProcessNextReviewItem_pops_last ==
    /\ WindowExists /\ rev_timer /\ rev_pc = "idle"
    /\ rev_timer' = FALSE
    /\ IF ~is_reviewing
       THEN /\ buttons' = UpdateButtons(buttons, is_worker_running, is_reviewing, review_list)
            /\ UNCHANGED <<is_reviewing, review_list, current_review_item, file_status, rev_pc, rev>>
       ELSE IF review_list = <<>>
       THEN /\ is_reviewing' = FALSE
            /\ buttons' = UpdateButtons(buttons, is_worker_running, FALSE, review_list)
            /\ UNCHANGED <<review_list, current_review_item, file_status, rev_pc, rev>>
       ELSE LET review_item == review_list[Len(review_list)]
            IN  /\ review_list' = SubSeq(review_list, 1, Len(review_list) - 1)
                /\ current_review_item' = review_item
                /\ file_status' = SetStatus(file_status, review_item.filepath, STATUS_REVIEWING)
                /\ rev' = Frame(review_item, review_item.candidates, NoFrame)
                /\ rev_pc' = "update_reviewing"
                /\ UNCHANGED <<is_reviewing, buttons>>
    /\ UNCHANGED <<sharedvars, workervars, processing_thread, runs, dialogs, grab, gui_modal,
                   window, selvars, toolvars>>

\* _process_next_review_item up to the first self.update() of the item it takes
ProcessNextReviewItem ==
    /\ WindowExists /\ rev_timer /\ rev_pc = "idle"
    /\ rev_timer' = FALSE
    /\ IF ~is_reviewing
       THEN /\ buttons' = UpdateButtons(buttons, is_worker_running, is_reviewing, review_list)
            /\ UNCHANGED <<is_reviewing, review_list, current_review_item, file_status, rev_pc, rev>>
       ELSE IF review_list = <<>>
       THEN /\ is_reviewing' = FALSE
            /\ buttons' = UpdateButtons(buttons, is_worker_running, FALSE, review_list)
            /\ UNCHANGED <<review_list, current_review_item, file_status, rev_pc, rev>>
       ELSE LET review_item == Head(review_list)
            IN  /\ review_list' = Tail(review_list)
                /\ current_review_item' = review_item
                /\ file_status' = SetStatus(file_status, review_item.filepath, STATUS_REVIEWING)
                /\ rev' = Frame(review_item, review_item.candidates, NoFrame)
                /\ rev_pc' = "update_reviewing"
                /\ UNCHANGED <<is_reviewing, buttons>>
    /\ UNCHANGED <<sharedvars, workervars, processing_thread, runs, dialogs, grab, gui_modal,
                   window, selvars, toolvars>>

\* the timer of the review loop fires inside the event loop of the entry in
\* flight (one of its self.update() calls, or the wait_window of its dialog):
\* _process_next_review_item runs there, and the entry it takes is processed
\* before the suspended one goes on
ProcessNextReviewItemNested ==
    /\ WindowExists /\ rev_timer /\ rev_pc # "idle"
    /\ FramesInFlight < MaxReviewFrames
    /\ rev_timer' = FALSE
    /\ IF ~is_reviewing
       THEN /\ buttons' = UpdateButtons(buttons, is_worker_running, is_reviewing, review_list)
            /\ UNCHANGED <<is_reviewing, review_list, current_review_item, file_status, rev_pc, rev>>
       ELSE IF review_list = <<>>
       THEN /\ is_reviewing' = FALSE
            /\ buttons' = UpdateButtons(buttons, is_worker_running, FALSE, review_list)
            /\ UNCHANGED <<review_list, current_review_item, file_status, rev_pc, rev>>
       ELSE LET review_item == Head(review_list)
            IN  /\ review_list' = Tail(review_list)
                /\ current_review_item' = review_item
                /\ file_status' = SetStatus(file_status, review_item.filepath, STATUS_REVIEWING)
                /\ rev' = Frame(review_item, review_item.candidates,
                                [pc |-> rev_pc, frame |-> rev])
                /\ rev_pc' = "update_reviewing"
                /\ UNCHANGED <<is_reviewing, buttons>>
    /\ UNCHANGED <<sharedvars, workervars, processing_thread, runs, dialogs, grab, gui_modal,
                   window, selvars, toolvars>>

\* after the first self.update(): the selection dialog or the query prompt opens
ReviewOpen ==
    /\ WindowExists /\ rev_pc = "update_reviewing"
    /\ rev_pc' = IF rev.item.reason = "search" THEN "query" ELSE "dialog"
    /\ UNCHANGED <<sharedvars, workervars, appvars, rev, rev_timer, selvars, toolvars>>

\* the human ends the selection dialog; a chosen id starts the download
ReviewAnswerDialog ==
    /\ WindowExists /\ rev_pc = "dialog"
    /\ \E selected_video_id \in DialogAnswers(rev.candidates) :
          IF Truthy(selected_video_id)
          THEN /\ file_status' = SetStatus(file_status, rev.item.filepath, STATUS_DOWNLOADING)
               /\ rev_pc' = "update_downloading"
               /\ UNCHANGED <<current_review_item, review_list, rev_timer, rev>>
          ELSE ReviewItemEnds(STATUS_SKIPPED_MANUAL)
    /\ UNCHANGED <<sharedvars, workervars, is_reviewing, processing_thread, runs,
                   buttons, dialogs, grab, gui_modal, window, selvars, toolvars>>

\* the human answers the query prompt; cancel ends the item as skipped
ReviewAnswerQuery ==
    /\ WindowExists /\ rev_pc = "query"
    /\ \E manual_query_result \in QueryAnswers :
          IF manual_query_result # None
          THEN /\ file_status' = SetStatus(file_status, rev.item.filepath, STATUS_SEARCHING)
               /\ rev_pc' = "update_searching"
               /\ UNCHANGED <<current_review_item, review_list, rev_timer, rev>>
          ELSE ReviewItemEnds(STATUS_SKIPPED_MANUAL)
    /\ UNCHANGED <<sharedvars, workervars, is_reviewing, processing_thread, runs,
                   buttons, dialogs, grab, gui_modal, window, selvars, toolvars>>

\* perform_search returns in the foreground
ReviewSearch ==
    /\ WindowExists /\ rev_pc = "update_searching"
    /\ \E r \in SearchReturns :
          IF r.ok /\ r.videos # <<>>
          THEN /\ file_status' = SetStatus(file_status, rev.item.filepath, STATUS_FILTERING)
               /\ rev' = [rev EXCEPT !.candidates = r.videos]
               /\ rev_pc' = "update_filtering"
               /\ UNCHANGED <<current_review_item, review_list, rev_timer>>
          ELSE ReviewItemEnds(STATUS_FAILED_SEARCH)
    /\ UNCHANGED <<sharedvars, workervars, is_reviewing, processing_thread, runs,
                   buttons, dialogs, grab, gui_modal, window, selvars, toolvars>>

\* the override dialog over the manual search's raw results opens
ReviewOpenOverride ==
    /\ WindowExists /\ rev_pc = "update_filtering"
    /\ rev_pc' = "dialog"
    /\ UNCHANGED <<sharedvars, workervars, appvars, rev, rev_timer, selvars, toolvars>>

\* perform_download returns in the foreground (or preparing it raised)
ReviewDownload ==
    /\ WindowExists /\ rev_pc = "update_downloading"
    /\ \E final_status \in {STATUS_COMPLETE, STATUS_FAILED_DOWNLOAD, STATUS_ERROR} :
          ReviewItemEnds(final_status)
    /\ UNCHANGED <<sharedvars, workervars, is_reviewing, processing_thread, runs,
                   buttons, dialogs, grab, gui_modal, window, selvars, toolvars>>

Foreground ==
    \/ GuiHandleMessage \/ AnswerQuery \/ AnswerDialog
    \/ StartProcessing \/ StartReviewPhase \/ StopProcessing \/ OnClosing \/ GuiDestroy

Review ==
    \/ ProcessNextReviewItem \/ ReviewOpen \/ ReviewAnswerDialog \/ ReviewAnswerQuery
    \/ ReviewSearch \/ ReviewOpenOverride \/ ReviewDownload

\* App.__init__ and the scan of the music directory: every file Queued, no
\* worker, nothing to review
SysInit ==
    /\ gui_queue = <<>>
    /\ manual_select_queue = <<>>
    /\ stop_event = FALSE
    /\ w_pc = "none" /\ w_idx = 0 /\ w = NoLocals /\ opts = NoOptions
    /\ file_status = [f \in Files |-> STATUS_QUEUED]
    /\ review_list = <<>>
    /\ current_review_item = NoReviewItem
    /\ is_reviewing = FALSE
    /\ processing_thread = "none"
    /\ runs = 0
    /\ buttons = [start |-> "normal", review |-> "disabled", stop |-> "disabled"]
    /\ dialogs = <<>> /\ grab = FALSE /\ gui_modal = "none"
    /\ window = "open"
    /\ rev_pc = "idle" /\ rev = NoReview /\ rev_timer = FALSE

(***************************************************************************)
(* Metadata.pyw: process_files_thread and MetadataApp                      *)
(***************************************************************************)
PROCESS_COMPLETE == "<<PROCESS_COMPLETE>>"

\* the log lines, by kind: an ordinary line and a line of the critical-error report
LogLine == "log line"
CriticalLine == "CRITICAL ERROR"

\* the counters of process_files_thread before its try block
NoCounts ==
    [total_files |-> 0, processed_count |-> 0, success_count |-> 0, skipped_count |-> 0,
     match_not_found_count |-> 0, error_count |-> 0]

\* MetadataApp.__init__: no thread, nothing logged
ToolInit ==
    /\ log_queue = <<>> /\ md_pc = "none" /\ md = NoCounts
    /\ start_button = "normal" /\ md_runs = 0

log_message(messages) == log_queue' = log_queue \o messages

\* MetadataApp.start_processing (both folders are valid)
ToolStartProcessing ==
    /\ start_button = "normal"
    /\ md_runs < MaxToolRuns
    /\ md_runs' = md_runs + 1
    /\ start_button' = "disabled"
    /\ md_pc' = "start" /\ md' = NoCounts
    /\ UNCHANGED log_queue

\* the thread begins: its first log line, then os.listdir of the video folder,
\* which lists the MP4 files or raises
ListVideoFiles ==
    /\ md_pc = "start"
    /\ \/ \E total_files \in 0..MaxMp4 :
             /\ md' = [md EXCEPT !.total_files = total_files]
             /\ log_message(<<LogLine, LogLine>>)
             /\ md_pc' = "loop"
       \/ /\ log_message(<<LogLine>>)
          /\ md_pc' = "except"
          /\ UNCHANGED md
    /\ UNCHANGED <<start_button, md_runs>>

\* what one pass of the loop can come to
FileOutcomes == {"updated", "transfer error", "no match", "skipped", "raised"}

\* the counters after one pass of the loop with the given outcome
Counted(counts, outcome) ==
    [counts EXCEPT
        !.processed_count = @ + 1,
        !.success_count = IF outcome = "updated" THEN @ + 1 ELSE @,
        !.error_count = IF outcome = "transfer error" THEN @ + 1 ELSE @,
        !.match_not_found_count = IF outcome = "no match" THEN @ + 1 ELSE @,
        !.skipped_count = IF outcome = "skipped" THEN @ + 1 ELSE @]

\* one pass of the loop over video_files; the helpers log lines of their own
\* (at most one is kept here), and an exception leaves the loop
ProcessFile ==
    /\ md_pc = "loop" /\ md.processed_count < md.total_files
    /\ \E outcome \in FileOutcomes, helper_lines \in {<<>>, <<LogLine>>} :
          /\ md' = Counted(md, outcome)
          /\ log_message(<<LogLine>> \o helper_lines)
          /\ md_pc' = IF outcome = "raised" THEN "except" ELSE "loop"
    /\ UNCHANGED <<start_button, md_runs>>

\* the loop is through: the eight lines of the summary
Summary ==
    /\ md_pc = "loop" /\ md.processed_count = md.total_files
    /\ log_message(<<LogLine, LogLine, LogLine, LogLine, LogLine, LogLine, LogLine, LogLine>>)
    /\ md_pc' = "finally"
    /\ UNCHANGED <<md, start_button, md_runs>>

\* the except clauses ending the thread there, without the finally clause
CriticalError_no_finally ==
    /\ md_pc = "except"
    /\ \/ log_message(<<CriticalLine>>)
       \/ log_message(<<CriticalLine, CriticalLine, CriticalLine>>)
    /\ md_pc' = "ended"
    /\ UNCHANGED <<md, start_button, md_runs>>

\* the except clauses: one line for FileNotFoundError, three for any other Exception
CriticalError ==
    /\ md_pc = "except"
    /\ \/ log_message(<<CriticalLine>>)
       \/ log_message(<<CriticalLine, CriticalLine, CriticalLine>>)
    /\ md_pc' = "finally"
    /\ UNCHANGED <<md, start_button, md_runs>>

\* the finally clause; the thread ends
PutProcessComplete ==
    /\ md_pc = "finally"
    /\ log_message(<<PROCESS_COMPLETE>>)
    /\ md_pc' = "ended"
    /\ UNCHANGED <<md, start_button, md_runs>>

\* MetadataApp.check_log_queue, one message: the marker goes to
\* processing_finished, any other message to the log area
CheckLogQueue ==
    /\ log_queue # <<>>
    /\ log_queue' = Tail(log_queue)
    /\ start_button' = IF Head(log_queue) = PROCESS_COMPLETE THEN "normal" ELSE start_button
    /\ UNCHANGED <<md_pc, md, md_runs>>

ToolNext ==
    /\ \/ ToolStartProcessing \/ ListVideoFiles \/ ProcessFile \/ Summary
       \/ CriticalError \/ PutProcessComplete \/ CheckLogQueue
    /\ UNCHANGED <<selvars, sysvars>>

(***************************************************************************)
(* The selector applied to every bounded input                             *)
(***************************************************************************)
SelInit ==
    /\ sel_videos \in VideoLists
    /\ sel_override \in BOOLEAN
    /\ sel_notrust \in BOOLEAN
    /\ sel_result = Pending
    /\ SysInit
    /\ ToolInit

SelCall ==
    /\ sel_result = Pending
    /\ sel_result' = filter_and_select(sel_videos, "Artist", "Song", sel_override, sel_notrust)
    /\ UNCHANGED <<sel_videos, sel_override, sel_notrust, sysvars, toolvars>>

SelNext == SelCall

SelSpec == SelInit /\ [][SelNext]_vars

SelDone == sel_result # Pending

SelNormal == SelDone /\ ~sel_override /\ ~sel_notrust

\* C1: with no_trust_mode=true every non-empty result list comes back as a
\* manual-selection request with reason 'select' holding one unscored candidate
\* per input result, in input order.
C1_NoTrustAlwaysManual ==
    (SelDone /\ sel_notrust /\ sel_videos # <<>>) =>
        /\ sel_result.type = "manual"
        /\ sel_result.reason = "select"
        /\ Len(sel_result.candidates) = Len(sel_videos)
        /\ \A i \in 1..Len(sel_videos) :
              /\ sel_result.candidates[i].id = sel_videos[i].id
              /\ sel_result.candidates[i].title = sel_videos[i].title
              /\ sel_result.candidates[i].channel = sel_videos[i].channel
              /\ sel_result.candidates[i].score = NotApplicable

\* a single result that the priority pass would select, handed over in no-trust mode
C1_Witness ==
    /\ SelDone /\ sel_notrust /\ ~sel_override
    /\ Len(sel_videos) = 1
    /\ IsPriority(sel_videos[1], "Artist") /\ sel_videos[1].id # None
    /\ sel_result.type = "manual"

PriorityMatches == {i \in 1..Len(sel_videos) : IsPriority(sel_videos[i], "Artist")}

\* C2 as stated: when exactly one result satisfies the official-priority rule,
\* a normal call returns that result's id.
C2_Original ==
    (SelNormal /\ Cardinality(PriorityMatches) = 1) =>
        \A i \in PriorityMatches :
            Truthy(sel_videos[i].id) /\ sel_result = Selected(sel_videos[i].id)

\* C2 amended: when exactly one result satisfies the official-priority rule and
\* that result has an id, a normal call returns its id, whatever the others score.
C2_PrioritySelected ==
    (SelNormal /\ Cardinality(PriorityMatches) = 1) =>
        \A i \in PriorityMatches :
            Truthy(sel_videos[i].id) => sel_result = Selected(sel_videos[i].id)

\* the priority result comes second, after a result that scores 12 on its own
C2_Witness ==
    /\ SelNormal /\ Len(sel_videos) = 2
    /\ PriorityMatches = {2}
    /\ Retained(sel_videos[1], "Artist", "Song")
    /\ Score(sel_videos[1], "Artist", "Song") >= 12
    /\ sel_result = Selected("v2")

SelScored == SortByScore(ScoredCandidates(sel_videos, "Artist", "Song", FALSE))

\* C3 as stated: with no priority hit and two or more retained candidates the top
\* candidate is auto-selected iff its score is at least 12 and at least 7 above
\* the second-best; otherwise the result is a manual-selection request.
C3_MarginLaw ==
    (SelNormal /\ PriorityHits(sel_videos, "Artist") = {} /\ Len(SelScored) >= 2) =>
        IF SelScored[1].score >= 12 /\ SelScored[1].score >= SelScored[2].score + 7
        THEN sel_result.type = "selected" /\ sel_result.id = SelScored[1].id
        ELSE sel_result.type = "manual" /\ sel_result.reason = "select"

\* C4 as stated: with no priority hit and exactly one retained candidate it is
\* auto-selected iff its score is at least 8; below that the result is a
\* manual-selection request with reason 'select'.
C4_SingleFloor ==
    (SelNormal /\ PriorityHits(sel_videos, "Artist") = {} /\ Len(SelScored) = 1) =>
        IF SelScored[1].score >= 8
        THEN sel_result.type = "selected" /\ sel_result.id = SelScored[1].id
        ELSE sel_result.type = "manual" /\ sel_result.reason = "select"

\* C5: an override call never returns a selected id; a non-empty input comes
\* back as a manual-selection request with reason 'override' holding every input
\* result, and 'no suitable candidate' is returned only for an empty input.
C5_OverrideNeverSelects ==
    (SelDone /\ sel_override /\ ~sel_notrust) =>
        /\ sel_result.type # "selected"
        /\ (sel_result = NoneResult) <=> (sel_videos = <<>>)
        /\ sel_videos # <<>> =>
              /\ sel_result.type = "manual"
              /\ sel_result.reason = "override"
              /\ Len(sel_result.candidates) = Len(sel_videos)
              /\ \A i \in 1..Len(sel_videos) :
                    /\ sel_result.candidates[i].id = sel_videos[i].id
                    /\ sel_result.candidates[i].title = sel_videos[i].title

\* an override call on a priority hit together with a result the filter rejects
C5_Witness ==
    /\ SelDone /\ sel_override /\ ~sel_notrust
    /\ Len(sel_videos) = 2
    /\ PriorityHits(sel_videos, "Artist") # {}
    /\ \E i \in 1..2 : ~Retained(sel_videos[i], "Artist", "Song")
    /\ sel_result.type = "manual"

(***************************************************************************)
(* The application: worker thread, foreground and human                    *)
(***************************************************************************)
Init ==
    /\ sel_videos = <<>> /\ sel_override = FALSE /\ sel_notrust = FALSE
    /\ sel_result = Pending
    /\ SysInit
    /\ ToolInit

Next == Worker \/ Foreground \/ Review

Spec == Init /\ [][Next]_vars

\* the program with the human also choosing the music directory at any time
ScanNext == Next \/ ScanMusicFiles

ScanSpec == Init /\ [][ScanNext]_vars

\* the program with the review loop's timer also firing while an entry is in flight
NestedNext == Next \/ ProcessNextReviewItemNested

NestedSpec == Init /\ [][NestedNext]_vars

\* the metadata-transfer tool, a program of its own
ToolSpec == Init /\ [][ToolNext]_vars

\* the scheduler runs the worker thread whenever it can take a step; the
\* human and the foreground's timers are under no obligation
FairSpec == Spec /\ WF_vars(Worker)

\* the worker is blocked in manual_select_queue.get()
WorkerWaits == w_pc \in {"wait_query", "wait_override", "wait_select"}

\* the worker left its loop: 'initial_pass_complete' is on the event channel
PassCompleteEmitted == w_pc \in {"exiting", "dead"}

\* a request of the worker that the foreground has not yet handled
UnhandledRequest ==
    \E i \in 1..Len(gui_queue) : gui_queue[i].type \in {"ask_manual_select", "ask_manual_search"}

\* C6: a stop requested while the worker is blocked on the decision channel
\* unblocks it through the stop sentinel, and the pass-complete message is
\* eventually emitted with no human answer needed (for as long as the process
\* lives: the destroy that on_closing schedules ends the worker with it).
C6_StopUnblocksWorker ==
    (WorkerWaits /\ stop_event) ~> (PassCompleteEmitted \/ window = "destroyed")

\* the worker has ended on the sentinel while its request was not even shown
C6_Witness ==
    /\ PassCompleteEmitted /\ stop_event /\ window = "open"
    /\ UnhandledRequest
    /\ dialogs = <<>> /\ gui_modal = "none"
    /\ manual_select_queue = <<>>

\* the worker takes the stop sentinel out of the decision channel while waiting
UnblockedBySentinel ==
    /\ WorkerWaits
    /\ manual_select_queue # <<>> /\ Head(manual_select_queue) = STOP_SIGNAL
    /\ manual_select_queue' = Tail(manual_select_queue)
    /\ w_pc' = "exiting"

\* C7 as stated: when the stop sentinel unblocks the waiting worker, the item
\* it was working on gets the status Skipped (Manual).
C7_Original ==
    [][UnblockedBySentinel =>
          \E i \in 1..Len(gui_queue') :
              gui_queue'[i] = StatusUpdate(w_idx, STATUS_SKIPPED_MANUAL)]_vars

\* C7 amended: when the stop sentinel unblocks the waiting worker, the worker
\* emits nothing but the pass-complete message, and the stop request itself sets
\* no status either: the item keeps the status it showed while the worker waited.
C7_StopLeavesStatus ==
    /\ [][UnblockedBySentinel =>
             /\ gui_queue' = Append(gui_queue, InitialPassComplete)
             /\ file_status' = file_status]_vars
    /\ [][(is_worker_running /\ ~stop_event /\ stop_event' /\ w_pc' = w_pc) =>
             /\ gui_queue' = gui_queue
             /\ file_status' = file_status]_vars

\* the pass was stopped while the selection dialog of a file was never
\* answered; every message is handled and the file still shows Filtering
C7_Witness ==
    /\ w_pc = "dead" /\ stop_event /\ gui_queue = <<>> /\ window = "open"
    /\ manual_select_queue = <<>>
    /\ Len(dialogs) = 1
    /\ file_status[dialogs[1].filepath] = STATUS_FILTERING

\* C8 as stated: a stop request during the review phase leaves the entries not
\* yet taken in the review queue, unchanged and in order.
C8_Original ==
    [][(is_reviewing /\ StopProcessing) => review_list' = review_list]_vars

\* C8 amended: a stop request during the review phase leaves the review queue
\* unchanged only while the worker thread is alive (it then stops the worker, not
\* the review); once the worker thread has ended it ends the review and empties
\* the queue, so the entries not yet taken are dropped.
C8_StopEmptiesQueue ==
    [][(is_reviewing /\ StopProcessing) =>
          IF is_worker_running
          THEN review_list' = review_list /\ is_reviewing'
          ELSE review_list' = <<>> /\ ~is_reviewing']_vars

\* the review was stopped while the entry of file 1 was in flight: the entry of
\* file 2, never taken, is gone from the queue and still shows Needs Review
C8_Witness ==
    /\ runs = 1 /\ window = "open"
    /\ processing_thread = "thread" /\ w_pc = "dead"
    /\ ~is_reviewing /\ review_list = <<>> /\ buttons.stop = "disabled"
    /\ rev_pc # "idle" /\ rev.item.filepath = 1 /\ current_review_item = NoReviewItem
    /\ file_status[1] = STATUS_SKIPPED_MANUAL
    /\ file_status[2] = STATUS_NEEDS_REVIEW

\* _process_next_review_item takes an entry
TakesEntry == rev_pc = "idle" /\ rev_pc' # "idle"

\* process_single_review_item returns
EntryEnds == rev_pc # "idle" /\ rev_pc' = "idle" /\ window' # "destroyed"

\* C9: an entry leaves the review queue at the moment it is taken (the head is
\* popped); the end of its processing, whatever the final status, leaves the
\* queue as it is; and the queue only ever grows by a review_needed message of
\* the worker, never by an entry put back.
C9_RemovedWhenTaken ==
    /\ [][TakesEntry =>
             /\ review_list # <<>>
             /\ rev'.item = Head(review_list)
             /\ review_list' = Tail(review_list)]_vars
    /\ [][EntryEnds => review_list' = review_list]_vars
    /\ [][Len(review_list') > Len(review_list) =>
             /\ gui_queue # <<>> /\ Head(gui_queue).type = "review_needed"
             /\ review_list' = Append(review_list, Head(gui_queue))]_vars

\* the first entry ended as Download Failed and is not queued again; the
\* second is still queued
C9_Witness ==
    /\ rev_pc = "idle" /\ is_reviewing /\ rev_timer
    /\ file_status[1] = STATUS_FAILED_DOWNLOAD
    /\ Len(review_list) = 1 /\ review_list[1].filepath = 2

\* C10 as stated: review entries are processed only once the pass-complete
\* message of the initial pass has been delivered.
C10_Original ==
    (is_reviewing \/ rev_pc # "idle") => processing_thread = "none"

\* C10 amended: the review phase starts only on a review request made while
\* the review queue is not empty, and an entry is taken only while the
\* review phase is on; whether the batch worker is still running plays no part.
C10_ReviewOnRequest ==
    /\ [][(~is_reviewing /\ is_reviewing') =>
             /\ review_list # <<>> /\ buttons.review = "normal" /\ ClickReaches
             /\ rev_timer']_vars
    /\ [][TakesEntry => is_reviewing /\ is_reviewing']_vars

\* the entry of file 1 is under review while the worker searches for file 2
C10_Witness ==
    /\ is_reviewing /\ rev_pc = "dialog" /\ rev.item.filepath = 1
    /\ is_worker_running /\ w_pc = "search1" /\ w_idx = 2
    /\ ~stop_event

(***************************************************************************)
(* The batch pass, item by item                                            *)
(***************************************************************************)
\* the statuses that end an item
TerminalStatuses ==
    {STATUS_COMPLETE, STATUS_FAILED_META, STATUS_FAILED_SEARCH, STATUS_FAILED_FILTER,
     STATUS_FAILED_DOWNLOAD, STATUS_FAILED_ALL, STATUS_ERROR, STATUS_SKIPPED_MANUAL,
     STATUS_EXISTS}

\* the worker is at work on item w_idx
InItem == w_pc \in LoopBody \cup {"wait_query", "wait_override", "wait_select"}

\* a step with which the worker leaves item w_idx for the next one
ItemEnds == InItem /\ w_pc' \in {"top", "delay"}

\* the messages a worker step puts on the event channel
PutByStep == SubSeq(gui_queue', Len(gui_queue) + 1, Len(gui_queue'))

\* the status item w_idx was last given once the step is done
StatusLeft == LastStatus(PutByStep, w.last_status)

\* C11: when the worker leaves an item for the next one (the pass was not
\* stopped), the status it last emitted for the item is a terminal one or
\* Needs Review, never Processing, Searching, Filtering or Downloading.
C11_ItemEndsTerminal ==
    [][ItemEnds => StatusLeft \in TerminalStatuses \cup {STATUS_NEEDS_REVIEW}]_vars

\* how many pass-complete messages a sequence of messages holds
PassCompletes(q) == Cardinality({i \in 1..Len(q) : q[i] = InitialPassComplete})

\* the worker is inside its loop
InLoop == w_pc \notin {"none", "exiting", "dead"}

\* C12: every run of the worker emits the pass-complete message exactly once
\* and as its last message, however the loop is left (list exhausted, stop,
\* or an exception nobody expected): none is emitted inside the loop, the
\* step that leaves the loop puts exactly one, after anything else it puts,
\* and the worker puts nothing after it.
C12_OnePassComplete ==
    /\ [](InLoop => PassCompletes(gui_queue) = 0)
    /\ [][(InLoop /\ w_pc' = "exiting")
            => /\ PassCompletes(PutByStep) = 1
               /\ PutByStep # <<>>
               /\ PutByStep[Len(PutByStep)] = InitialPassComplete]_vars
    /\ [](PassCompleteEmitted /\ processing_thread = "thread"
            => /\ PassCompletes(gui_queue) = 1
               /\ gui_queue[Len(gui_queue)] = InitialPassComplete)
    /\ [][(PassCompleteEmitted /\ PassCompleteEmitted')
            => Len(gui_queue') <= Len(gui_queue)]_vars

\* a pass aborted by an exception has reported it and then its completion
C12_Witness ==
    /\ w_pc = "exiting"
    /\ Len(gui_queue) >= 2
    /\ gui_queue[Len(gui_queue) - 1] = ErrorMessage
    /\ gui_queue[Len(gui_queue)] = InitialPassComplete

\* the requests for an interactive answer among the messages a step puts
AsksPut == {i \in 1..Len(PutByStep) :
               PutByStep[i].type \in {"ask_manual_select", "ask_manual_search"}}

\* the review entries for item w_idx among the messages a step puts
ReviewsPut == {i \in 1..Len(PutByStep) :
                  PutByStep[i].type = "review_needed" /\ PutByStep[i].filepath = w_idx}

\* C13: in deferred mode (interactive_mode off) the worker never waits on the
\* decision channel and never asks for an interactive answer; an item that
\* was escalated is sent as a review_needed message (its row ends on Needs
\* Review) and the worker goes straight on to the next item.
C13_DeferredNeverWaits ==
    /\ [](InLoop /\ ~opts.interactive_mode => ~WorkerWaits)
    /\ [][(InLoop /\ ~opts.interactive_mode) => AsksPut = {}]_vars
    /\ [][(~opts.interactive_mode /\ w.final_status # STATUS_NEEDS_REVIEW
               /\ w'.final_status = STATUS_NEEDS_REVIEW) => ReviewsPut # {}]_vars
    /\ [][(ItemEnds /\ ~opts.interactive_mode
               /\ (w.needs_manual_action \/ w.final_status = STATUS_NEEDS_REVIEW))
            => StatusLeft = STATUS_NEEDS_REVIEW /\ w_pc' = "top"]_vars

\* deferred mode: the first item waits in the review queue while the worker
\* is at work on the second
C13_Witness ==
    /\ ~opts.interactive_mode
    /\ w_idx = 2 /\ w_pc = "search1"
    /\ \E i \in 1..Len(review_list) : review_list[i].filepath = 1

\* the item got as far as the search step and is left now
LeavesSearchedItem == ItemEnds /\ w_pc \in {"final", "download"}

\* C14: in no-trust mode every item that reaches the search step and whose
\* search does not fail has been escalated to the human (asked, or queued for
\* review) by the time the worker leaves it; none is left as Exhausted or No
\* Suitable Video without the escalation.
C14_NoTrustAlwaysAsks ==
    [][(LeavesSearchedItem /\ opts.no_trust_mode /\ ~w.search_error)
         => /\ w.needs_manual_action
            /\ StatusLeft \notin {STATUS_FAILED_ALL, STATUS_FAILED_FILTER}
            /\ w.final_status # STATUS_FAILED_FILTER]_vars

\* the worker takes a video id for the item it is at work on
TakesId == InLoop /\ InLoop' /\ w.selected_video_id = None /\ w'.selected_video_id # None

\* C15: in no-trust mode no video is downloaded unless a human chose its id:
\* the worker takes an id only as the answer of a selection dialog that it
\* reads from the decision channel, only the human's answers and the stop
\* sentinels are put on that channel, a download of the pass starts only with
\* an id taken so, and a download of the review phase starts only from the
\* answer of a selection dialog.
C15_NoTrustHumanChooses ==
    /\ [][(opts.no_trust_mode /\ TakesId)
            => /\ w_pc \in {"wait_select", "wait_override"}
               /\ manual_select_queue # <<>>
               /\ w'.selected_video_id = Head(manual_select_queue)]_vars
    /\ [][Len(manual_select_queue') > Len(manual_select_queue)
            => AnswerDialog \/ AnswerQuery \/ StopProcessing \/ OnClosing]_vars
    /\ [][(opts.no_trust_mode /\ w_pc # "download" /\ w_pc' = "download")
            => w_pc = "final" /\ w.selected_video_id # None /\ w.needs_manual_action]_vars
    /\ [][(rev_pc # "update_downloading" /\ rev_pc' = "update_downloading")
            => ReviewAnswerDialog]_vars

\* no-trust mode: the worker downloads the video the human chose
C15_Witness ==
    /\ opts.no_trust_mode
    /\ w_pc = "download"
    /\ w.selected_video_id # None

\* the fallback search returns to a worker step that stays with the item, and
\* like the official search it succeeded without a result
BothSearchesEmpty ==
    /\ w_pc = "search2" /\ w_pc' # "search2" /\ InItem'
    /\ ~opts.no_trust_mode
    /\ ~w.videos_found_at_all /\ ~w'.videos_found_at_all
    /\ ~w'.search_error

UnfilteredSearchDone ==
    /\ w_pc = "search3" /\ w_pc' = "decide"
    /\ ~w'.search_error

\* the escalation with reason 'override' is flagged
OverrideFlagged(loc) ==
    /\ loc.needs_manual_action
    /\ loc.action_reason = "override"
    /\ loc.action_candidates # <<>>

\* C17 as the claim states it: whenever the unfiltered search is reached and
\* no transport failure occurs, the item is escalated with reason 'override'.
C17_Original ==
    [][UnfilteredSearchDone => OverrideFlagged(w')]_vars

\* C17: with no-trust mode off and no transport failure, an item for which
\* some search found videos that the filter neither selected nor escalated is
\* escalated with reason 'override' if the re-issued unfiltered search again
\* returns a result (the human is then asked or the review entry is put,
\* unless the pass is stopped first); if that search returns nothing the
\* item's final status is set to No Search Results and nobody is asked.
C17_OverrideWhenFoundAgain ==
    /\ [][UnfilteredSearchDone
            => IF w'.final_status = STATUS_FAILED_SEARCH
               THEN ~w'.needs_manual_action
               ELSE OverrideFlagged(w') /\ w'.final_status = None]_vars
    /\ [][(w_pc = "decide" /\ w_pc' \in {"wait_select", "final"}
               /\ OverrideFlagged(w) /\ ~stop_event)
            => PutByStep = IF opts.interactive_mode
                           THEN <<AskManualSelect(w_idx, w.action_candidates, TRUE)>>
                           ELSE <<ReviewNeeded(w_idx, "override", w.action_candidates)>>]_vars
    /\ [][(ItemEnds /\ w.final_status = STATUS_FAILED_SEARCH /\ w.videos_found_at_all)
            => ~w.needs_manual_action /\ AsksPut = {} /\ ReviewsPut = {}]_vars

\* interactive mode: the human is asked to pick among the unfiltered results
C17_Witness ==
    /\ w_pc = "wait_select"
    /\ OverrideFlagged(w)
    /\ \E i \in 1..Len(dialogs) : dialogs[i].is_override /\ dialogs[i].filepath = w_idx

\* the places where an automated search of the item is under way
AutomatedSearch == {"search1", "search2", "search3"}

\* C18: once a search call of an item has reported a transport failure, no
\* further automated search is issued for the item in that pass: the failure
\* takes the worker straight to the end of the attempts, and while the item's
\* error flag is up the worker is at no search and at no prompt.
C18_NoSearchAfterFailure ==
    /\ [][(w_pc \in AutomatedSearch /\ InItem' /\ ~w.search_error /\ w'.search_error)
            => w_pc' = "decide"]_vars
    /\ [](InLoop /\ w.search_error => w_pc \in {"decide", "final"})

\* the official search failed because the search tool is missing: the worker
\* is past the attempts with nothing found and the row still on Searching
C18_Witness ==
    /\ w_pc = "decide"
    /\ w.search_error
    /\ w.last_status = STATUS_SEARCHING
    /\ ~w.videos_found_at_all
    /\ \E i \in 1..Len(gui_queue) : gui_queue[i] = ErrorMessage

\* the item is left with no id selected and without an escalation: nothing
\* was flagged for the human, nothing was queued for review, and the human
\* was not asked for a query (that happens in interactive mode whenever both
\* searches succeed without a result and no-trust mode is off)
EndsUnresolved ==
    /\ ItemEnds /\ w_pc = "final"
    /\ w.selected_video_id = None
    /\ ~w.needs_manual_action
    /\ w.final_status # STATUS_NEEDS_REVIEW
    /\ ~(opts.interactive_mode /\ ~opts.no_trust_mode
            /\ ~w.videos_found_at_all /\ ~w.search_error)

\* the final status of the item that the step leaves
FinalStatus == IF w.final_status # None THEN w.final_status ELSE StatusLeft

\* C19 as the claim states it: an item that ends with no selected id and no
\* escalation has the final status Error after a transport failure and
\* Exhausted otherwise.
C19_Original ==
    [][EndsUnresolved
         => FinalStatus = IF w.search_error THEN STATUS_ERROR ELSE STATUS_FAILED_ALL]_vars

\* C19: an item that ends with no selected id, no escalation and no final
\* status set by an earlier step is given the status Error if a transport
\* failure occurred and Exhausted if none occurred; the only other such end
\* is the item whose unfiltered search came back empty, whose final status
\* was set to No Search Results.
C19_ErrorOrExhausted ==
    [][EndsUnresolved
         => IF w.final_status = None
            THEN PutByStep = <<StatusUpdate(w_idx, IF w.search_error THEN STATUS_ERROR
                                                                       ELSE STATUS_FAILED_ALL)>>
            ELSE /\ w.final_status = STATUS_FAILED_SEARCH
                 /\ w.videos_found_at_all /\ ~w.search_error]_vars

\* an item was just given the status Error for its transport failure
C19_Witness ==
    /\ w_pc = "delay"
    /\ gui_queue # <<>>
    /\ gui_queue[Len(gui_queue)] = StatusUpdate(w_idx, STATUS_ERROR)

\* C20: a search call that times out is treated as a search failure of the
\* item: after the call the item is on the search-error path (the error flag
\* of the automated attempts, or the Error status of a manual search), not on
\* the path of a search without results.
C20_TimeoutIsFailure ==
    (InLoop /\ w.timed_out) => (w.search_error \/ w.final_status = STATUS_ERROR)

(***************************************************************************)
(* One worker, one review queue, one order                                 *)
(***************************************************************************)
\* C21: at most one batch worker runs at a time: while a worker is inside
\* its loop the Start button is disabled, so no start request reaches
\* start_processing, and a worker is started only when none is in its loop.
C21_OneWorker ==
    /\ [](InLoop => buttons.start = "disabled" /\ processing_thread = "thread")
    /\ [][StartProcessing => ~InLoop]_vars

\* the worker is in its loop, the main window takes clicks, and a review
\* phase that ran meanwhile has ended an item and is over
C21_Witness ==
    /\ InLoop /\ ClickReaches
    /\ ~is_reviewing /\ rev_pc = "idle"
    /\ \E f \in Files : file_status[f] = STATUS_SKIPPED_MANUAL

\* the item is left after the human was shown its candidates in interactive
\* mode and skipped the selection
InteractiveSkipEnds ==
    /\ ItemEnds /\ w_pc = "final"
    /\ opts.interactive_mode
    /\ w.needs_manual_action
    /\ w.selected_video_id = None

\* C22: the same escalation with the same human answer ends the item in the
\* same final status in interactive mode and in the review phase; for the
\* answer that both can be compared on without a download, the skip: a
\* skipped selection ends the item as Skipped (Manual) in the review phase
\* and in interactive mode.
C22_SkipEndsSkipped ==
    /\ [][(ReviewAnswerDialog /\ rev_pc' = "idle")
            => file_status'[rev.item.filepath] = STATUS_SKIPPED_MANUAL]_vars
    /\ [][InteractiveSkipEnds => FinalStatus = STATUS_SKIPPED_MANUAL]_vars

\* C23: every way of ending the manual-selection dialog (selecting a
\* candidate, using a pasted URL, pressing skip, closing the window) puts
\* exactly one message on the decision channel and takes the dialog away;
\* closing the window puts the skip answer None.
C23_DialogAlwaysAnswers ==
    /\ [][(on_select \/ use_url \/ on_skip \/ WM_DELETE_WINDOW)
            => /\ Len(manual_select_queue') = Len(manual_select_queue) + 1
               /\ SubSeq(manual_select_queue', 1, Len(manual_select_queue)) = manual_select_queue
               /\ Len(dialogs') = Len(dialogs) - 1]_vars
    /\ [][WM_DELETE_WINDOW => manual_select_queue' = Append(manual_select_queue, None)]_vars
    /\ [][(Len(dialogs') < Len(dialogs) /\ WindowExists')
            => Len(manual_select_queue') = Len(manual_select_queue) + 1]_vars

\* the worker waits for the selection, the dialog is gone and its skip
\* answer is on the decision channel
C23_Witness ==
    /\ w_pc = "wait_select"
    /\ dialogs = <<>>
    /\ manual_select_queue = <<None>>

\* the worker is through with the metadata of item w_idx (it has artist and
\* title, was not stopped and met no exception) and goes on
PastMetadata ==
    /\ w_pc = "meta" /\ w_pc' # "meta" /\ InLoop'
    /\ StatusLeft # STATUS_FAILED_META

FirstSearchDecides ==
    /\ w_pc = "search1" /\ InItem'
    /\ w'.selected_video_id # None \/ w'.needs_manual_action

\* C25: when the official search of an item yields an automatic selection or
\* an escalation, the worker goes to the handling of the result without a
\* fallback or unfiltered search: the fallback search is entered only from the
\* official one and the unfiltered one only from the fallback, both only with
\* no id and no escalation; from the handling an id goes on to the final step
\* (the download) and an escalation to the human (asked, or queued for
\* review) unless a stop came in between.
C25_FirstResultEndsSearch ==
    /\ [][FirstSearchDecides => w_pc' = "decide"]_vars
    /\ [](w_pc \in {"search2", "search3"}
            => w.selected_video_id = None /\ ~w.needs_manual_action)
    /\ [][(w_pc' = "search2" /\ w_pc # "search2") => w_pc = "search1"]_vars
    /\ [][(w_pc' = "search3" /\ w_pc # "search3") => w_pc = "search2"]_vars
    /\ [][(w_pc = "decide" /\ w_pc' # "decide" /\ InItem')
            => IF w.needs_manual_action /\ w.selected_video_id = None /\ ~stop_event
               THEN AsksPut # {} \/ ReviewsPut # {}
               ELSE w_pc' = "final" /\ PutByStep = <<>>]_vars

\* the worker handles an id that the filter selected from the official
\* search: Processing, Searching and Filtering are all that was put for the item
C25_Witness ==
    /\ w_pc = "decide" /\ w.selected_video_id # None
    /\ Len(gui_queue) >= 3
    /\ SubSeq(gui_queue, Len(gui_queue) - 2, Len(gui_queue))
         = <<StatusUpdate(w_idx, STATUS_PROCESSING), StatusUpdate(w_idx, STATUS_SEARCHING),
             StatusUpdate(w_idx, STATUS_FILTERING)>>

\* the files of the entries waiting in the review queue, in queue order
QueuedFiles == [i \in 1..Len(review_list) |-> review_list[i].filepath]

\* C26: the review queue is first in, first out and no entry is processed
\* twice: the queue changes only by a review_needed message appended at its
\* tail, by its head being taken for processing, or by being emptied; the
\* entries wait in the order the worker queued them, no file twice; an entry
\* taken is one still marked Needs Review and is marked Reviewing by the
\* step, and the entry in processing is not waiting in the queue as well.
C26_ReviewFifo ==
    /\ [][review_list' # review_list =>
             \/ /\ gui_queue # <<>> /\ Head(gui_queue).type = "review_needed"
                /\ review_list' = Append(review_list, Head(gui_queue))
             \/ /\ TakesEntry /\ review_list # <<>>
                /\ rev'.item = Head(review_list) /\ review_list' = Tail(review_list)
             \/ review_list' = <<>>]_vars
    /\ [](\A i, j \in 1..Len(review_list) : i < j => QueuedFiles[i] < QueuedFiles[j])
    /\ [](\A i \in 1..Len(review_list) : file_status[QueuedFiles[i]] = STATUS_NEEDS_REVIEW)
    /\ [][TakesEntry => file_status'[rev'.item.filepath] = STATUS_REVIEWING]_vars
    /\ [](rev_pc # "idle" =>
             /\ file_status[rev.item.filepath] # STATUS_NEEDS_REVIEW
             /\ \A i \in 1..Len(review_list) : QueuedFiles[i] # rev.item.filepath)

\* the entry queued first is in processing while the one queued second waits
C26_Witness ==
    /\ rev_pc = "dialog" /\ rev.item.filepath = 1
    /\ Len(review_list) = 1 /\ QueuedFiles[1] = 2

\* the messages that name a file
NamesFile(message) ==
    message.type \in {"status_update", "review_needed", "ask_manual_select", "ask_manual_search"}

\* C27: the worker takes up the items in list order, one at a time; every
\* message it puts names the item it is at, so that on the event channel no
\* message of an item waits behind a message of a later item; the channel
\* is appended to at its tail and read at its head only, and the foreground
\* applies the status of the message it reads.
C27_ItemsInOrder ==
    /\ [][w_idx' # w_idx =>
             \/ w_idx' = w_idx + 1 /\ w_pc = "top" /\ w_pc' = "meta"
             \/ w_idx' = 0 /\ w_pc' \in {"top", "none"}]_vars
    /\ [][(w_pc' = "meta" /\ w_pc # "meta") => w_idx' = w_idx + 1]_vars
    /\ [][\A i \in 1..Len(PutByStep) :
             NamesFile(PutByStep[i]) => PutByStep[i].filepath = w_idx']_vars
    /\ [](\A i, j \in 1..Len(gui_queue) :
             (i < j /\ NamesFile(gui_queue[i]) /\ NamesFile(gui_queue[j]))
                => gui_queue[i].filepath <= gui_queue[j].filepath)
    /\ [][gui_queue' # gui_queue =>
             \/ Len(gui_queue') > Len(gui_queue)
                  /\ SubSeq(gui_queue', 1, Len(gui_queue)) = gui_queue
             \/ gui_queue # <<>> /\ gui_queue' = Tail(gui_queue)
             \/ gui_queue' = <<>>]_vars
    /\ [][(GuiHandleMessage /\ Head(gui_queue).type = "status_update")
            => file_status' = SetStatus(file_status, Head(gui_queue).filepath,
                                        Head(gui_queue).status)]_vars

\* the worker is at the second item while messages of the first still wait
\* on the channel in front of those of the second
C27_Witness ==
    /\ w_idx = 2 /\ w_pc = "search1"
    /\ Len(gui_queue) >= 3
    /\ NamesFile(gui_queue[1]) /\ gui_queue[1].filepath = 1
    /\ NamesFile(gui_queue[Len(gui_queue)]) /\ gui_queue[Len(gui_queue)].filepath = 2

\* the items of the list the worker has not taken up
NotTakenUp == {f \in Files : f > w_idx}

\* a step of the review entry that is in processing
ReviewStep == rev_pc # "idle" /\ rev_pc' # rev_pc

KeepRule(video) ==
    /\ ~(\/ ContainsAny(Lower(video.title), negative_keywords)
         \/ ContainsAny(Lower(video.description), description_keywords))
    /\ \/ Contains(Lower(video.title), "song")
       \/ Score(video, "Artist", "Song") > 2

\* the positions of the input list that the rule keeps
KeptByRule == {i \in 1..Len(sel_videos) : KeepRule(sel_videos[i])}

\* C29: in a call without override and without no-trust mode that reaches
\* the scoring, the candidates are exactly the results that are not flagged
\* negative and that have the target title in their title or a score above
\* 2: a manual-selection request holds one candidate per such result and no
\* other, and a call of results with ids that returns nothing has no such result.
C29_KeptIff ==
    SelNormal =>
      /\ sel_result.type = "manual" =>
            /\ Len(sel_result.candidates) = Cardinality(KeptByRule)
            /\ \A i \in 1..Len(sel_videos) :
                  Truthy(sel_videos[i].id) =>
                     ((\E k \in 1..Len(sel_result.candidates) :
                           sel_result.candidates[k].id = sel_videos[i].id)
                        <=> i \in KeptByRule)
      /\ (sel_result.type = "none" /\ \A i \in 1..Len(sel_videos) : Truthy(sel_videos[i].id))
            => KeptByRule = {}

\* of two results one is kept for its score although its title lacks the
\* target title, and the other is dropped
C29_Witness ==
    /\ SelNormal /\ sel_result.type = "manual"
    /\ Len(sel_videos) = 2 /\ Len(sel_result.candidates) = 1
    /\ KeptByRule = {1}
    /\ ~Contains(Lower(sel_videos[1].title), "song")

\* the score as the sum of the rules; official_ids tells which words in the
\* uploader id mark an official channel
RuleSum(video, official_ids) ==
    LET t == Lower(video.title)
        c == Lower(video.channel)
        u == Lower(video.uploader_id)
        negative == ContainsAny(t, negative_keywords)
        positive == ContainsAny(t, positive_keywords)
        official == \/ c = <<"artist">>
                    \/ ContainsAny(c, {"official", "vevo"})
                    \/ ContainsAny(u, official_ids)
        penalty == IF negative THEN (IF positive THEN -5 ELSE -20)
                   ELSE IF ContainsAny(Lower(video.description), description_keywords) THEN -5
                   ELSE 0
        phrase == IF positive THEN 10 ELSE 0
        channel == IF official THEN 8
                   ELSE IF Contains(c, "artist") THEN 5
                   ELSE IF ContainsAny(c, {"topic", "various artists"}) THEN -5
                   ELSE 0
        names == IF Contains(t, "artist") /\ Contains(t, "song") THEN 4
                 ELSE IF Contains(t, "song") THEN 2
                 ELSE 0
        views == IF video.view_count > 10000000 THEN 3
                 ELSE IF video.view_count > 1000000 THEN 2
                 ELSE IF video.view_count > 100000 THEN 1
                 ELSE 0
        verified == IF video.channel_is_verified THEN 5 ELSE 0
        length == (IF video.duration # 0 /\ video.duration < 90 THEN -2 ELSE 0)
                  + (IF video.duration > 600 THEN -2 ELSE 0)
    IN  penalty + phrase + channel + names + views + verified + length

\* the candidates of a manual-selection request of a scored call carry the
\* score that RuleSum gives their result
CandidatesScoredBy(official_ids) ==
    (SelNormal /\ sel_result.type = "manual") =>
       \A k \in 1..Len(sel_result.candidates), i \in 1..Len(sel_videos) :
          (Truthy(sel_videos[i].id) /\ sel_result.candidates[k].id = sel_videos[i].id)
             => sel_result.candidates[k].score = RuleSum(sel_videos[i], official_ids)

\* C30 as stated: the score of every result is the sum of the rules, where
\* the +8 of the channel is given for "official" or "vevo" in the channel or
\* in the uploader id.
C30_Original ==
    /\ \A i \in 1..Len(sel_videos) :
          Score(sel_videos[i], "Artist", "Song") = RuleSum(sel_videos[i], {"official", "vevo"})
    /\ CandidatesScoredBy({"official", "vevo"})

\* C30: the score of every result is the sum of the rules, where the +8 of
\* the channel is given for a channel equal to the artist, for "official" or
\* "vevo" in the channel, and for "vevo" in the uploader id ("official" in
\* the uploader id gives nothing); the candidates handed to the human carry
\* that score.
C30_ScoreSum ==
    /\ \A i \in 1..Len(sel_videos) :
          Score(sel_videos[i], "Artist", "Song") = RuleSum(sel_videos[i], {"vevo"})
    /\ CandidatesScoredBy({"vevo"})

\* a result whose uploader id holds "official" on a channel of another name
\* was scored 4, for artist and title in its title alone
C30_Witness ==
    /\ SelNormal /\ sel_result.type = "manual"
    /\ \E k \in 1..Len(sel_result.candidates), i \in 1..Len(sel_videos) :
          /\ sel_result.candidates[k].id = sel_videos[i].id
          /\ Contains(Lower(sel_videos[i].uploader_id), "official")
          /\ sel_result.candidates[k].score = 4

\* C31: a result without an id is never selected: every id the selector
\* returns as its selection is a non-empty id of one of the results, and the
\* worker is in a download only with such an id.
C31_NoIdNeverSelected ==
    /\ (SelDone /\ sel_result.type = "selected") =>
          /\ Truthy(sel_result.id)
          /\ \E i \in 1..Len(sel_videos) : sel_videos[i].id = sel_result.id
    /\ w_pc = "download" => Truthy(w.selected_video_id)

\* the results of the input list that pass the retention filter
RetainedResults == {i \in 1..Len(sel_videos) : Retained(sel_videos[i], "Artist", "Song")}

\* C32: a call without override and without no-trust mode returns "no
\* suitable candidate" only when the input list is empty or no result passes
\* the retention filter; with at least one result retained it returns a
\* selected id or a manual-selection request holding the retained candidates.
C32_NoneOnlyWhenNothingRetained ==
    SelNormal =>
      /\ sel_result = NoneResult => (sel_videos = <<>> \/ RetainedResults = {})
      /\ RetainedResults # {} =>
            \/ sel_result.type = "selected"
            \/ sel_result.type = "manual" /\ sel_result.candidates = SelScored

\* the thumbnail in the words of the specification: the URL of the last entry
\* of the list that has one, else the top-level field, else none
ThumbnailRule(video) ==
    LET with_url == {i \in 1..Len(video.thumbnails) : Truthy(video.thumbnails[i])}
    IN  IF with_url # {}
        THEN video.thumbnails[CHOOSE i \in with_url : \A j \in with_url : j <= i]
        ELSE video.thumbnail

\* C33: every candidate carries the thumbnail that the rule gives its
\* record, on the no-trust path, the override path and the scoring path; and
\* the no-trust path and the override path build, score apart, the very
\* candidates that the dialog's filename search builds from the same records.
C33_SameCandidates ==
    (SelDone /\ sel_videos # <<>>) =>
      /\ (sel_notrust \/ sel_override) =>
            /\ sel_result.type = "manual"
            /\ sel_result.candidates = search_by_filename_candidates(sel_videos)
            /\ \A i \in 1..Len(sel_videos) :
                  sel_result.candidates[i].thumbnail = ThumbnailRule(sel_videos[i])
      /\ (SelNormal /\ sel_result.type = "manual") =>
            \A k \in 1..Len(sel_result.candidates), i \in 1..Len(sel_videos) :
               (Truthy(sel_videos[i].id) /\ sel_result.candidates[k].id = sel_videos[i].id)
                  => sel_result.candidates[k].thumbnail = ThumbnailRule(sel_videos[i])

\* a review entry is still in processing after a stop request took it out of
\* current_review_item (only stop_processing and the entry's own end reset it)
StoppedInFlight == rev_pc # "idle" /\ current_review_item = NoReviewItem

\* C34: from the stop request on, the status of the entry that was in
\* flight is Skipped (Manual): while the rest of its processing runs, and when
\* its processing ends.
C34_StoppedEntrySkipped ==
    /\ [](StoppedInFlight => file_status[rev.item.filepath] = STATUS_SKIPPED_MANUAL)
    /\ [][(StoppedInFlight /\ EntryEnds)
            => file_status'[rev.item.filepath] = STATUS_SKIPPED_MANUAL]_vars

\* the worker is in the polite delay: at the test of its loop or asleep for a slice
InDelay == w_pc \in {"delay", "sleeping"}

\* C35: once the stop flag is set the worker begins no further slice of the
\* polite delay (the slice it is asleep in is the last one), it leaves the
\* delay for the top of the loop and takes up no further item; and an item
\* whose last status is Needs Review is left for the next item without delay
\* (the process exiting ends the worker wherever it is).
C35_StopEndsDelay ==
    /\ [][stop_event => ~(w_pc = "delay" /\ w_pc' = "sleeping")]_vars
    /\ [][(stop_event /\ InDelay /\ w_pc' # w_pc) =>
             \/ w_pc = "sleeping" /\ w_pc' = "delay"
             \/ w_pc = "delay" /\ w_pc' = "top"
             \/ w_pc' = "none"]_vars
    /\ [][(stop_event /\ InDelay) => w_idx' \in {w_idx, 0}]_vars
    /\ [][(stop_event /\ w_pc = "top" /\ w_pc' # w_pc) => w_pc' \in {"exiting", "none"}]_vars
    /\ [][(ItemEnds /\ StatusLeft = STATUS_NEEDS_REVIEW) => ~InDelay']_vars

\* the stop request arrived while the worker was asleep in a slice of the delay
C35_Witness ==
    /\ stop_event /\ w_pc = "sleeping" /\ w_idx = 1
    /\ file_status[2] = STATUS_QUEUED

\* the worker takes the answer to its manual-search request off the decision channel
TakesQueryAnswer ==
    /\ w_pc = "wait_query" /\ manual_select_queue # <<>>
    /\ manual_select_queue' = Tail(manual_select_queue)

\* C36: when the answer the worker takes for its manual-search request is a
\* text the human typed into the prompt, the worker starts the manual search
\* with exactly that text: the text is not taken for a stop, for a filename
\* search or for a cancel.
C36_QueryTextSearched ==
    [][(TakesQueryAnswer /\ Head(manual_select_queue) \in QueryTexts)
         => /\ w_pc' = "search_manual"
            /\ w'.manual_query = Head(manual_select_queue)
            /\ stop_event' = stop_event]_vars

\* a run of the worker was stopped and has ended; its stop flag is still set
StoppedRunEnded == runs > 0 /\ stop_event /\ ~is_worker_running

\* C37: after a stopped run, scanning the music directory lists every audio
\* file of the directory as Queued, and a start request that follows finds
\* the work list filled: it does not return on an empty list.
C37_ScanAfterStop ==
    /\ [][(StoppedRunEnded /\ ScanMusicFiles)
            => \A f \in Files : file_status'[f] = STATUS_QUEUED]_vars
    /\ [][(StoppedRunEnded /\ ClickReaches /\ buttons.start = "normal")
            => ~(NothingListed(file_status) /\ NothingListed(file_status'))]_vars

\* the messages on the decision channel that are not the stop sentinel
AnswersWaiting == SelectSeq(manual_select_queue, LAMBDA m : m # STOP_SIGNAL)

\* the request the worker waits on has not been answered yet: it is still on
\* the event channel, or its dialog or prompt is open
RequestOpen == UnhandledRequest \/ dialogs # <<>> \/ gui_modal # "none"

ReviewRequestWhileRunning ==
    /\ ClickReaches /\ buttons.review = "normal" /\ is_reviewing
    /\ StartReviewPhase

\* C39: at most one call of process_single_review_item is in progress at
\* any time, and a review request made while the review phase runs changes
\* nothing.
C39_OneEntryInFlight ==
    /\ [](FramesInFlight <= 1)
    /\ [][ReviewRequestWhileRunning => UNCHANGED vars]_vars

\* the messages the step puts on log_queue
ToolPuts ==
    IF Len(log_queue') > Len(log_queue)
    THEN SubSeq(log_queue', Len(log_queue) + 1, Len(log_queue'))
    ELSE <<>>

\* the thread of the metadata tool is not running
ToolThreadOver == md_pc \in {"none", "ended"}

\* C40: a run of process_files_thread ends only with the step that puts
\* the '<<PROCESS_COMPLETE>>' marker, after an error too; the marker is put by
\* no other step, and once the thread has ended it puts nothing; the Start
\* button is enabled only while no thread runs, so runs do not mix their
\* messages. And when the loop ends normally every listed file was processed and
\* the processed count is the sum of the updated, match-not-found, skipped and
\* transfer-error counts.
C40_OneMarkerLast ==
    /\ [][(~ToolThreadOver /\ md_pc' = "ended") => ToolPuts = <<PROCESS_COMPLETE>>]_vars
    /\ [][(\E i \in 1..Len(ToolPuts) : ToolPuts[i] = PROCESS_COMPLETE)
            => ~ToolThreadOver /\ md_pc' = "ended"]_vars
    /\ [][ToolThreadOver => ToolPuts = <<>>]_vars
    /\ [](start_button = "normal" => ToolThreadOver)
    /\ [][(md_pc = "loop" /\ md_pc' = "finally") =>
             /\ md.processed_count = md.total_files
             /\ md.processed_count = md.success_count + md.match_not_found_count
                                       + md.skipped_count + md.error_count]_vars

\* a run has ended after an error in its second file: the first file was
\* updated, and the marker follows the error report on the queue
C40_Witness ==
    /\ md_pc = "ended"
    /\ md.processed_count = 2 /\ md.success_count = 1
    /\ Len(log_queue) >= 2
    /\ log_queue[Len(log_queue)] = PROCESS_COMPLETE
    /\ log_queue[Len(log_queue) - 1] = CriticalLine

====
